---- MODULE Spec2Model ----
(***************************************************************************)
(* Vault engine of the BAR application: FileManager (file_manager.py),     *)
(* its policy evaluation, the background sweep and forensic destruction.   *)
(*                                                                         *)
(* The persisted store is one metadata file per entry.  Threads of the     *)
(* program (foreground callers of access_file, the monitor thread, the     *)
(* fire-and-forget destruction threads) interleave at the granularity of   *)
(* one file-system operation: a read of a metadata file, a write of it,    *)
(* the overwrite and the unlink of secure deletion.                        *)
(*                                                                         *)
(* Time is counted in ticks; TicksPerDay ticks make one day, so that an    *)
(* elapsed time of one and a half days can be told from one or two days.   *)
(***************************************************************************)
EXTENDS Integers, Sequences, FiniteSets, TLC

\* ------------------------------------------------------------------ bounds
NumCallers == 2
MaxTasks == 1
MaxTime == 5
TicksPerDay == 2
MaxCount == 2
\* secure_delete_file: the largest number of passes asked for, the largest
\* file in bytes, and the bytes of one chunk (4096 in the program).
MaxPasses == 3
MaxBytes == 3
ChunkBytes == 2
\* FileScanner: the scan threads that can be alive at once, the files of one
\* device and the removable devices of one scan.
MaxScanThreads == 2
MaxFiles == 2
MaxDevices == 2
\* create_secure_file: the bytes of a payload, and the bytes of it that
\* _is_media_file reads (20 in the program).
MaxContent == 4
HeaderBytes == 3
\* EncryptionManager: the bytes of a plaintext.
MaxPlain == 2

\* ------------------------------------------------------- program constants
\* A policy field, a counter or a hash that is absent (Python's None, or a
\* key missing from the JSON object).
Null == -1
\* access_file: max_failed_attempts = 3
MaxFailedAttempts == 3
\* SecureDelete.DEFAULT_PASSES
DefaultPasses == 3
\* FileScanner.BAR_FILE_MIN_SIZE
BarFileMinSize == 50

\* The file ids of the store (uuid4 strings in the program).
Ids == {"f1"}
\* The ids _generate_file_id gives to the entries made after construction.
NewIds == {"n1"}
AllIds == Ids \cup NewIds
\* No entry: the file_id of a thread that works on none.
NoId == "none"
Callers == 1..NumCallers
Sweeper == 0
Tasks == (NumCallers + 1)..(NumCallers + MaxTasks)
Procs == Callers \cup {Sweeper} \cup Tasks
Passwords == {"pw1", "pw2"}
\* An envelope without a hardware_id_hash key.
NoHw == "none"
\* The paths callers export to and import from; they lie outside the
\* directories that _secure_delete_file and the duplicate search clean.
Paths == {"e1"}

VARIABLES
    files,      \* metadata directory: id -> state of <id>.json
    blacklist,  \* blacklist directory: the set of file names (safe hashes)
    now,        \* the clock, in ticks
    pc,         \* where each thread is
    tgt,        \* the file_id a thread is working on
    md,         \* a caller's in-memory copy of the metadata it loaded
    pwok,       \* whether the password a caller gave unseals the entry
    ret,        \* what _secure_delete_file returns to ("policy", "permdel", "sweep", "task")
    sweepQ,     \* the monitor thread's remaining entries of the current glob
    out,        \* the outcome of the access_file call that ended last
    born,       \* history: the record each entry had when it was persisted
    streak,     \* history: wrong-password access_file calls on an entry since the last right one
    okCount,    \* history: access_file calls on an entry that returned the content
    destroyed,  \* history: entries removed by forensic destruction
    expAtGlob,  \* history: entries that were expired when the current sweep iteration started
    dmsAtGlob,  \* history: entries inactive for longer than their dead-man period at that point
    wasReset,   \* history: entries whose nonzero failed count a successful access has reset
    keep,       \* the history variables a specification records (never changes)
    disk,       \* files outside the store: path -> the record an export has written there
    io,         \* the outcome of the export, import or delete operation that ended last
    faults,     \* the auxiliary steps of _secure_delete_file that fail (never changes)
    sd,         \* one SecureDelete.secure_delete_file call on a file: where it is, and the file
    scan,       \* the FileScanner: scan_in_progress, the callers of its methods, its scan threads
    val,        \* one _validate_bar_file call: the file it is given and what it returns
    seal,       \* one encrypt_file_content call and one decrypt_file_content call on its result
    dup         \* the duplicate search started by a destruction

ioVars == <<disk, io, faults>>

\* The parts of the program outside the store's entries.
extVars == <<sd, scan, val, seal, dup>>

\* The store: its entries, its threads and the records kept of them.
storeVars == <<files, blacklist, now, pc, tgt, md, pwok, ret, sweepQ, out,
               born, streak, okCount, destroyed, expAtGlob, dmsAtGlob, wasReset, keep, ioVars>>

vars == <<storeVars, extVars>>

\* ---------------------------------------------------------- file states
NoFile == [st |-> "absent"]
\* A metadata file that secure deletion has overwritten and truncated but
\* not yet unlinked: it exists and no longer parses as JSON.
Wiped == [st |-> "wiped"]
IsJson(f) == f.st = "json"
NoMd == [st |-> "none"]
NoOut == [id |-> NoId, kind |-> "none", rem |-> 0]

\* ------------------------------------------------------------- hashes
\* A hash is a string, modelled as a sequence of characters.
SafeChars == {"a", "b", "c", "d", "e", "f", "x", "y", "f1", "f2", "f3", "n1", "h1", "h2", "_", "-"}

\* _hash_content: base64 of the SHA-256 of the plaintext.  Base64 output
\* holds characters outside [a-zA-Z0-9_-] ("+", "/", "=").
HashContent(c) == <<"x", c, "+", "=">>

\* hashlib.sha256(json.dumps(encryption_data)).hexdigest(): a hex string
\* determined by the envelope (ciphertext, nonce and salt).
EnvelopeDigest(enc) ==
    <<"e", enc.eid>>
        \o (IF enc.hardware_id_hash = NoHw THEN <<>> ELSE <<"d", enc.hardware_id_hash>>)
        \o (IF enc.hardware_bound = "absent" THEN <<>> ELSE <<"b">>)

\* re.sub(r'[^a-zA-Z0-9_-]', '_', content_hash)
SafeHash(h) == [k \in DOMAIN h |-> IF h[k] \in SafeChars THEN h[k] ELSE "_"]

\* _add_to_blacklist: the hash the record is filed under, <<>> when none.
BlacklistHash(m) ==
    IF m.content_hash # <<>> THEN m.content_hash
    ELSE EnvelopeDigest(m.encryption)

\* Mutant: the new record takes the place of the records filed before.
AddToBlacklistReplacing(bl, m) == {SafeHash(BlacklistHash(m))}

\* _add_to_blacklist: the blacklist directory after the call.
AddToBlacklist(bl, m) ==
    LET content_hash == BlacklistHash(m)
    IN  IF content_hash = <<>> THEN bl
        ELSE bl \cup {SafeHash(content_hash)}

\* _is_blacklisted
IsBlacklisted(bl, content_hash) == SafeHash(content_hash) \in bl

\* ------------------------------------------------------------- crypto
\* The plaintext an envelope seals: what decrypt_file_content returns for it
\* with the right password.  Envelopes made from one another by adding or
\* removing the hardware keys hold the same ciphertext.
Content(enc) == enc.eid

\* EncryptionManager.decrypt_file_content: the AES-GCM tag verifies exactly
\* when the key derived from the password is the one the envelope was
\* sealed with.
DecryptOk(enc, password) == enc.pw = password

\* ------------------------------------------------------------- policy
\* Python truthiness of an optional integer: None and 0 are false.
Truthy(x) == x # Null /\ x # 0

\* timedelta.days: whole days of a difference, rounded toward minus infinity.
WholeDays(ticks) == ticks \div TicksPerDay

\* Mutant: the access count is allowed to reach the limit.
CheckCountOffByOne(m, current_time) ==
    IF m.security.expiration_time # Null
         /\ current_time > m.security.expiration_time
    THEN FALSE
    ELSE IF Truthy(m.security.max_access_count)
              /\ m.access_count > m.security.max_access_count
    THEN FALSE
    ELSE IF Truthy(m.security.deadman_switch)
              /\ WholeDays(current_time - m.last_accessed) > m.security.deadman_switch
    THEN FALSE
    ELSE TRUE

\* Mutant: the expiration time is not checked.
CheckWithoutExpiry(m, current_time) ==
    IF Truthy(m.security.max_access_count)
         /\ m.access_count >= m.security.max_access_count
    THEN FALSE
    ELSE IF Truthy(m.security.deadman_switch)
              /\ WholeDays(current_time - m.last_accessed) > m.security.deadman_switch
    THEN FALSE
    ELSE TRUE

\* Mutant: the dead-man switch fires as soon as the period is reached.
CheckDeadmanAtPeriod(m, current_time) ==
    IF m.security.expiration_time # Null
         /\ current_time > m.security.expiration_time
    THEN FALSE
    ELSE IF Truthy(m.security.max_access_count)
              /\ m.access_count >= m.security.max_access_count
    THEN FALSE
    ELSE IF Truthy(m.security.deadman_switch)
              /\ WholeDays(current_time - m.last_accessed) >= m.security.deadman_switch
    THEN FALSE
    ELSE TRUE

\* _check_security_constraints: TRUE if the file can be accessed, FALSE if
\* it should be deleted.
CheckSecurityConstraints(m, current_time) ==
    IF m.security.expiration_time # Null
         /\ current_time > m.security.expiration_time
    THEN FALSE
    ELSE IF Truthy(m.security.max_access_count)
              /\ m.access_count >= m.security.max_access_count
    THEN FALSE
    ELSE IF Truthy(m.security.deadman_switch)
              /\ WholeDays(current_time - m.last_accessed) > m.security.deadman_switch
    THEN FALSE
    ELSE TRUE

\* --------------------------------------------------------------- Init
\* create_secure_file: the record of a new entry (no content_hash, no
\* failed_password_attempts key).
NewMetadata(file_id, password, security, current_time) ==
    [st |-> "json",
     file_id |-> file_id,
     last_accessed |-> current_time,
     access_count |-> 0,
     creation_time |-> current_time,
     security |-> security,
     encryption |-> [pw |-> password, eid |-> file_id,
                     hardware_id_hash |-> NoHw, hardware_bound |-> "absent"],
     content_hash |-> <<>>,
     failed_password_attempts |-> Null]

\* import_portable_file: the record of an imported entry carries the
\* content_hash of the portable record.
ImportedMetadata(file_id, password, security, current_time) ==
    [NewMetadata(file_id, password, security, current_time) EXCEPT
        !.content_hash = HashContent(file_id),
        !.failed_password_attempts = 0]

Policies ==
    [expiration_time : {Null, 1},
     max_access_count : {Null} \cup 1..MaxCount,
     deadman_switch : {Null, 1},
     disable_export : {FALSE}]

\* The store a FileManager is constructed on at time t: the entries
\* persisted at time 0 by create_secure_file or import_portable_file, not
\* yet accessed.
StoreOf(t, policies, attempts) ==
    /\ \E f \in [Ids -> policies], imp \in [Ids -> BOOLEAN], a \in [Ids -> attempts] :
          files = [i \in AllIds |->
                     IF i \in NewIds THEN NoFile
                     ELSE IF imp[i]
                     THEN [ImportedMetadata(i, "pw1", f[i], 0) EXCEPT
                              !.failed_password_attempts = a[i]]
                     ELSE NewMetadata(i, "pw1", f[i], 0)]
    /\ born = files
    /\ blacklist = {}
    /\ now = t
    /\ pc = [p \in Procs |-> IF p = Sweeper THEN "sw_sleep" ELSE "idle"]
    /\ tgt = [p \in Procs |-> NoId]
    /\ md = [p \in Procs |-> NoMd]
    /\ pwok = [p \in Procs |-> FALSE]
    /\ ret = [p \in Procs |-> "none"]
    /\ sweepQ = {}
    /\ out = NoOut
    /\ streak = [i \in AllIds |-> 0]
    /\ okCount = [i \in AllIds |-> 0]
    /\ destroyed = {}
    /\ expAtGlob = {}
    /\ dmsAtGlob = {}
    /\ wasReset = {}

Store(t) == StoreOf(t, Policies, {0})

History == {"out", "streak", "okCount", "destroyed", "expAtGlob", "dmsAtGlob", "wasReset"}

\* Concurrent runs start at any time of the clock, which stands still while
\* the threads overlap (a tick is a large part of a day).
NoIo == [op |-> "none", rec |-> [st |-> "none"], result |-> "none", n |-> 0]

\* Nothing exported yet, no export, import or delete operation made yet, and
\* no auxiliary step of _secure_delete_file fails.
\* No secure_delete_file call is followed step by step.
NoSd == [pc |-> "none"]

\* FileScanner.__init__: no scan in progress, no scan thread.
ScanThreads == 1..MaxScanThreads
NoThread ==
    [pc |-> "free", kind |-> "none", devices |-> 0, files |-> 0,
     stop_requested |-> FALSE, after_stop |-> 0, callback |-> FALSE]
NoScan ==
    [scan_in_progress |-> FALSE,
     cpc |-> [c \in Callers |-> "idle"],
     reply |-> "none",
     status |-> "none",
     nfiles |-> 0,
     delivered |-> "none",
     thr |-> [t \in ScanThreads |-> NoThread]]

\* No _validate_bar_file call is followed.
NoVal == [pc |-> "none"]

\* No encrypt_file_content call is followed.
NoSeal == [pc |-> "none"]

\* No destruction has started a duplicate search.
NoDup == [caller |-> "none"]

ExtRest == sd = NoSd /\ scan = NoScan /\ val = NoVal /\ seal = NoSeal /\ dup = NoDup

IoRest == disk = [path \in Paths |-> NoFile] /\ io = NoIo /\ faults = {} /\ ExtRest

Init == (\E t \in 0..MaxTime : Store(t)) /\ keep = {"destroyed"} /\ IoRest

InitSeq == Store(0) /\ keep = History /\ IoRest

\* ------------------------------------------------------------ helpers
Min(a, b) == IF a < b THEN a ELSE b

\* The threads that are between two operations: a caller outside any call,
\* the monitor thread before or between the entries of an iteration, a
\* destruction thread that is free or spawned and not yet running.
RestPcs == {"idle", "sw_sleep", "sw_next", "task_start"}

\* Whether `password` is the one entry i was sealed with.
RightPassword(i, password) == IsJson(born[i]) /\ DecryptOk(born[i].encryption, password)

\* An access_file call of caller p on entry i ends with outcome `kind`.
CallDone(p, i, ok, kind, rem) ==
    /\ out' = IF "out" \in keep THEN [id |-> i, kind |-> kind, rem |-> rem] ELSE out
    /\ streak' = [streak EXCEPT ![i] =
                    IF "streak" \notin keep THEN @
                    ELSE IF kind = "content" THEN 0
                    ELSE IF ~ok THEN Min(@ + 1, MaxFailedAttempts)
                    ELSE @]
    /\ okCount' = [okCount EXCEPT ![i] =
                    IF "okCount" \in keep /\ kind = "content" THEN Min(@ + 1, MaxCount + 1) ELSE @]

\* _secure_delete_file returns to its caller: access_file raises, the
\* monitor thread goes on with its next entry, a destruction thread ends.
Return(p) ==
    /\ pc' = [pc EXCEPT ![p] = IF ret[p] = "sweep" THEN "sw_next" ELSE "idle"]
    /\ tgt' = [tgt EXCEPT ![p] = NoId]
    /\ ret' = [ret EXCEPT ![p] = "none"]
    /\ pwok' = [pwok EXCEPT ![p] = FALSE]
    /\ IF ret[p] = "policy"
       THEN CallDone(p, tgt[p], pwok[p], "policy_error", 0)
       ELSE IF ret[p] = "permdel"
       THEN CallDone(p, tgt[p], pwok[p], "permanently_deleted", 0)
       ELSE UNCHANGED <<out, streak, okCount>>

\* -------------------------------------------------------- access_file
\* Mutant: a successful unseal leaves the failed count as it was.
AfterUnsealNoReset(f, password) ==
    LET attempts == IF f.failed_password_attempts = Null THEN 0
                    ELSE f.failed_password_attempts
    IN  IF DecryptOk(f.encryption, password)
        THEN f
        ELSE [f EXCEPT !.failed_password_attempts =
                          Min(attempts + 1, MaxFailedAttempts + 1)]

\* Mutant: a failed attempt is counted as an access.
AfterUnsealCountingFailures(f, password) ==
    LET attempts == IF f.failed_password_attempts = Null THEN 0
                    ELSE f.failed_password_attempts
    IN  IF DecryptOk(f.encryption, password)
        THEN [f EXCEPT !.failed_password_attempts = 0]
        ELSE [f EXCEPT !.failed_password_attempts =
                          Min(attempts + 1, MaxFailedAttempts + 1),
                       !.access_count = Min(@ + 1, MaxCount + 1)]

\* access_file, lines 208-223: the metadata in memory after the unseal
\* attempt.  The failed count starts at 0 when the key is missing; it is reset
\* on success and incremented on failure.
AfterUnseal(f, password) ==
    LET attempts == IF f.failed_password_attempts = Null THEN 0
                    ELSE f.failed_password_attempts
    IN  IF DecryptOk(f.encryption, password)
        THEN [f EXCEPT !.failed_password_attempts = 0]
        ELSE [f EXCEPT !.failed_password_attempts =
                          Min(attempts + 1, MaxFailedAttempts + 1)]

\* Mutant: the threshold test is off by one.
ReachedMaxFailedOffByOne(m) == m.failed_password_attempts > MaxFailedAttempts

\* access_file, line 231: the threshold of failed attempts is reached.
ReachedMaxFailed(m) == m.failed_password_attempts >= MaxFailedAttempts

\* access_file, lines 248-249: this access has triggered self-destruction.
SelfDestructs(m) ==
    /\ Truthy(m.security.max_access_count)
    /\ m.access_count >= m.security.max_access_count

\* Mutant: the unseal is attempted before the policy constraints are checked.
AccessLoadUnsealFirst(p, i, password) ==
    /\ p \in Callers
    /\ pc[p] = "idle"
    /\ \A q \in Callers : q < p => pc[q] # "idle"
    /\ LET ok == RightPassword(i, password)
           f == files[i]
       IN  IF f = NoFile
           THEN /\ CallDone(p, i, ok, "not_found", 0)
                /\ UNCHANGED <<pc, tgt, md, pwok, ret>>
           ELSE IF f = Wiped
           THEN /\ CallDone(p, i, ok, "decode_error", 0)
                /\ UNCHANGED <<pc, tgt, md, pwok, ret>>
           ELSE IF ~DecryptOk(f.encryption, password)
           THEN /\ tgt' = [tgt EXCEPT ![p] = i]
                /\ pwok' = [pwok EXCEPT ![p] = ok]
                /\ md' = [md EXCEPT ![p] = AfterUnseal(f, password)]
                /\ pc' = [pc EXCEPT ![p] = "acc_write_fail"]
                /\ UNCHANGED <<ret, out, streak, okCount>>
           ELSE IF ~CheckSecurityConstraints(f, now)
           THEN /\ pc' = [pc EXCEPT ![p] = "sdf_read"]
                /\ tgt' = [tgt EXCEPT ![p] = i]
                /\ ret' = [ret EXCEPT ![p] = "policy"]
                /\ pwok' = [pwok EXCEPT ![p] = ok]
                /\ UNCHANGED <<md, out, streak, okCount>>
           ELSE /\ tgt' = [tgt EXCEPT ![p] = i]
                /\ pwok' = [pwok EXCEPT ![p] = ok]
                /\ md' = [md EXCEPT ![p] = AfterUnseal(f, password)]
                /\ pc' = [pc EXCEPT ![p] = "acc_write_ok"]
                /\ UNCHANGED <<ret, out, streak, okCount>>
    /\ UNCHANGED <<files, blacklist, now, sweepQ, born, destroyed, expAtGlob,
                   dmsAtGlob, wasReset, keep, ioVars, extVars>>

\* access_file, lines 193-236 up to the first write: the existence check and
\* the load, the policy check, the unseal attempt.
AccessLoad(p, i, password) ==
    /\ p \in Callers
    /\ pc[p] = "idle"
    \* callers are interchangeable: the first idle one makes the call
    /\ \A q \in Callers : q < p => pc[q] # "idle"
    /\ LET ok == RightPassword(i, password)
           f == files[i]
       IN  IF f = NoFile
           THEN \* FileNotFoundError
                /\ CallDone(p, i, ok, "not_found", 0)
                /\ UNCHANGED <<pc, tgt, md, pwok, ret>>
           ELSE IF f = Wiped
           THEN \* json.load raises JSONDecodeError
                /\ CallDone(p, i, ok, "decode_error", 0)
                /\ UNCHANGED <<pc, tgt, md, pwok, ret>>
           ELSE IF ~CheckSecurityConstraints(f, now)
           THEN /\ pc' = [pc EXCEPT ![p] = "sdf_read"]
                /\ tgt' = [tgt EXCEPT ![p] = i]
                /\ ret' = [ret EXCEPT ![p] = "policy"]
                /\ pwok' = [pwok EXCEPT ![p] = ok]
                /\ UNCHANGED <<md, out, streak, okCount>>
           ELSE /\ tgt' = [tgt EXCEPT ![p] = i]
                /\ pwok' = [pwok EXCEPT ![p] = ok]
                /\ md' = [md EXCEPT ![p] = AfterUnseal(f, password)]
                /\ pc' = [pc EXCEPT ![p] = IF DecryptOk(f.encryption, password)
                                           THEN "acc_write_ok"
                                           ELSE "acc_write_fail"]
                /\ UNCHANGED <<ret, out, streak, okCount>>
    /\ UNCHANGED <<files, blacklist, now, sweepQ, born, destroyed, expAtGlob, dmsAtGlob, wasReset, keep, ioVars, extVars>>

\* Mutant: the failed attempt is counted in memory and not saved.
AccessWriteFailUnsaved(p) ==
    /\ pc[p] = "acc_write_fail"
    /\ UNCHANGED files
    /\ md' = [md EXCEPT ![p] = NoMd]
    /\ IF ReachedMaxFailed(md[p])
       THEN /\ pc' = [pc EXCEPT ![p] = "sdf_read"]
            /\ ret' = [ret EXCEPT ![p] = "permdel"]
            /\ UNCHANGED <<tgt, pwok, out, streak, okCount>>
       ELSE /\ pc' = [pc EXCEPT ![p] = "idle"]
            /\ tgt' = [tgt EXCEPT ![p] = NoId]
            /\ pwok' = [pwok EXCEPT ![p] = FALSE]
            /\ CallDone(p, tgt[p], pwok[p], "wrong_password",
                        MaxFailedAttempts - md[p].failed_password_attempts)
            /\ UNCHANGED ret
    /\ UNCHANGED <<blacklist, now, sweepQ, born, destroyed, expAtGlob, dmsAtGlob, wasReset, keep, ioVars, extVars>>

\* access_file, lines 226-236: the failed count is written back, then the
\* entry is destroyed at the threshold or the call fails.
AccessWriteFail(p) ==
    /\ pc[p] = "acc_write_fail"
    /\ files' = [files EXCEPT ![tgt[p]] = md[p]]
    /\ md' = [md EXCEPT ![p] = NoMd]
    /\ IF ReachedMaxFailed(md[p])
       THEN /\ pc' = [pc EXCEPT ![p] = "sdf_read"]
            /\ ret' = [ret EXCEPT ![p] = "permdel"]
            /\ UNCHANGED <<tgt, pwok, out, streak, okCount>>
       ELSE /\ pc' = [pc EXCEPT ![p] = "idle"]
            /\ tgt' = [tgt EXCEPT ![p] = NoId]
            /\ pwok' = [pwok EXCEPT ![p] = FALSE]
            /\ CallDone(p, tgt[p], pwok[p], "wrong_password",
                        MaxFailedAttempts - md[p].failed_password_attempts)
            /\ UNCHANGED ret
    /\ UNCHANGED <<blacklist, now, sweepQ, born, destroyed, expAtGlob, dmsAtGlob, wasReset, keep, ioVars, extVars>>

\* The destruction thread access_file starts: the first free thread.
FreeTask == CHOOSE t \in Tasks : pc[t] = "idle" /\ \A u \in Tasks : pc[u] = "idle" => t <= u

\* access_file, lines 238-254: the access is recorded and written back, the
\* destruction thread is started when the count has reached the limit, and
\* the content is returned.
AccessWriteOk(p) ==
    /\ pc[p] = "acc_write_ok"
    /\ LET i == tgt[p]
           m == [md[p] EXCEPT !.last_accessed = now,
                              !.access_count = Min(@ + 1, MaxCount + 1)]
           spawn == SelfDestructs(m)
       IN  /\ files' = [files EXCEPT ![i] = m]
           /\ IF spawn
              THEN /\ \E t \in Tasks : pc[t] = "idle"
                   /\ pc' = [pc EXCEPT ![p] = "idle", ![FreeTask] = "task_start"]
                   /\ tgt' = [tgt EXCEPT ![p] = NoId, ![FreeTask] = i]
                   /\ ret' = [ret EXCEPT ![FreeTask] = "task"]
              ELSE /\ pc' = [pc EXCEPT ![p] = "idle"]
                   /\ tgt' = [tgt EXCEPT ![p] = NoId]
                   /\ UNCHANGED ret
           /\ CallDone(p, i, pwok[p], "content", 0)
           /\ dmsAtGlob' = dmsAtGlob \ {i}
           /\ wasReset' = IF /\ "wasReset" \in keep
                             /\ IsJson(files[i])
                             /\ files[i].failed_password_attempts > 0
                          THEN wasReset \cup {i}
                          ELSE wasReset
    /\ md' = [md EXCEPT ![p] = NoMd]
    /\ pwok' = [pwok EXCEPT ![p] = FALSE]
    /\ UNCHANGED <<blacklist, now, sweepQ, born, destroyed, expAtGlob, keep, ioVars, extVars>>

\* ------------------------------------------------ _secure_delete_file
\* The auxiliary steps of _secure_delete_file: the blacklist insertion, the
\* erasure of the file at file_path, of the copies in the exports, temp and
\* portable directories, and the start of the duplicate search.
AuxSteps == {"blacklist", "file_path", "exports", "temp", "portable", "search"}

\* Mutant: an error of the blacklist insertion is not handled.
CaughtExceptBlacklist(step) == step \in AuxSteps \ {"blacklist"}

\* _secure_delete_file, lines 380-452: each auxiliary step runs in a try
\* block of its own, whose handler logs the error and goes on.
Caught(step) == step \in AuxSteps

\* _secure_delete_file, lines 362-456: the existence check, the read of the
\* metadata, the blacklist insertion and the other auxiliary steps.  A file
\* that does not parse is not blacklisted and is still erased.  An error
\* that no handler catches would leave the function before the erasure.
SdfRead(p) ==
    /\ pc[p] \in {"sdf_read", "task_start"}
    /\ LET f == files[tgt[p]]
       IN  IF f = NoFile
           THEN /\ Return(p)
                /\ UNCHANGED blacklist
           ELSE IF IsJson(f) /\ \E step \in faults : ~Caught(step)
           THEN /\ Return(p)
                /\ UNCHANGED blacklist
           ELSE /\ blacklist' = IF IsJson(f) /\ "blacklist" \notin faults
                                THEN AddToBlacklist(blacklist, f)
                                ELSE blacklist
                /\ pc' = [pc EXCEPT ![p] = "sdf_wipe"]
                /\ UNCHANGED <<tgt, ret, pwok, out, streak, okCount>>
    /\ UNCHANGED <<files, now, md, sweepQ, born, destroyed, expAtGlob, dmsAtGlob, wasReset, keep, ioVars, extVars>>

\* SecureDelete.secure_delete_file, lines 32-72: the overwrite passes and
\* the truncation of the metadata file.
SdfWipe(p) ==
    /\ pc[p] = "sdf_wipe"
    /\ IF files[tgt[p]] = NoFile
       THEN /\ Return(p)
            /\ UNCHANGED files
       ELSE /\ files' = [files EXCEPT ![tgt[p]] = Wiped]
            /\ pc' = [pc EXCEPT ![p] = "sdf_unlink"]
            /\ UNCHANGED <<tgt, ret, pwok, out, streak, okCount>>
    /\ UNCHANGED <<blacklist, now, md, sweepQ, born, destroyed, expAtGlob, dmsAtGlob, wasReset, keep, ioVars, extVars>>

\* Mutant: the metadata file is overwritten and never unlinked.
SdfUnlinkKeepsFile(p) ==
    /\ pc[p] = "sdf_unlink"
    /\ Return(p)
    /\ UNCHANGED <<files, blacklist, now, md, sweepQ, born, destroyed, expAtGlob,
                   dmsAtGlob, wasReset, keep, ioVars, extVars>>

\* SecureDelete.secure_delete_file, lines 74-77: os.remove of the metadata
\* file, and the return of _secure_delete_file.
SdfUnlink(p) ==
    /\ pc[p] = "sdf_unlink"
    /\ files' = [files EXCEPT ![tgt[p]] = NoFile]
    /\ destroyed' = IF "destroyed" \in keep /\ files[tgt[p]] # NoFile THEN destroyed \cup {tgt[p]}
                    ELSE destroyed
    /\ Return(p)
    /\ UNCHANGED <<blacklist, now, md, sweepQ, born, expAtGlob, dmsAtGlob, wasReset, keep, ioVars, extVars>>

\* ------------------------------------------------------ _monitor_files
\* An entry's expiration time has passed.
Expired(m, t) == m.security.expiration_time # Null /\ t > m.security.expiration_time

\* An entry has been inactive for longer than its dead-man period.
Inactive(m, t) ==
    /\ m.security.deadman_switch # Null
    /\ t - m.last_accessed > m.security.deadman_switch * TicksPerDay

\* _monitor_files, line 810: the glob of the metadata directory starts an
\* iteration.
SweepGlob ==
    /\ pc[Sweeper] = "sw_sleep"
    /\ sweepQ' = {i \in AllIds : files[i] # NoFile}
    /\ pc' = [pc EXCEPT ![Sweeper] = "sw_next"]
    /\ expAtGlob' = {i \in AllIds : "expAtGlob" \in keep /\ IsJson(files[i]) /\ Expired(files[i], now)}
    /\ dmsAtGlob' = {i \in AllIds : "dmsAtGlob" \in keep /\ IsJson(files[i]) /\ Inactive(files[i], now)}
    /\ UNCHANGED <<files, blacklist, now, tgt, md, pwok, ret, out, born,
                   streak, okCount, destroyed, wasReset, keep, ioVars, extVars>>

\* Mutant: the error of a file that does not parse ends the iteration.
SweepEvalStoppingAtError(i) ==
    /\ pc[Sweeper] = "sw_next"
    /\ i \in sweepQ
    /\ sweepQ' = IF IsJson(files[i]) \/ files[i] = NoFile THEN sweepQ \ {i} ELSE {}
    /\ IF IsJson(files[i]) /\ ~CheckSecurityConstraints(files[i], now)
       THEN /\ pc' = [pc EXCEPT ![Sweeper] = "sdf_read"]
            /\ tgt' = [tgt EXCEPT ![Sweeper] = files[i].file_id]
            /\ ret' = [ret EXCEPT ![Sweeper] = "sweep"]
       ELSE UNCHANGED <<pc, tgt, ret>>
    /\ UNCHANGED <<files, blacklist, now, md, pwok, out, born, streak, okCount,
                   destroyed, expAtGlob, dmsAtGlob, wasReset, keep, ioVars, extVars>>

\* _monitor_files, lines 811-820: one entry of the glob is read and
\* evaluated; a file that is gone or does not parse is logged and skipped.
SweepEval(i) ==
    /\ pc[Sweeper] = "sw_next"
    /\ i \in sweepQ
    /\ sweepQ' = sweepQ \ {i}
    /\ IF IsJson(files[i]) /\ ~CheckSecurityConstraints(files[i], now)
       THEN /\ pc' = [pc EXCEPT ![Sweeper] = "sdf_read"]
            /\ tgt' = [tgt EXCEPT ![Sweeper] = files[i].file_id]
            /\ ret' = [ret EXCEPT ![Sweeper] = "sweep"]
       ELSE UNCHANGED <<pc, tgt, ret>>
    /\ UNCHANGED <<files, blacklist, now, md, pwok, out, born, streak, okCount,
                   destroyed, expAtGlob, dmsAtGlob, wasReset, keep, ioVars, extVars>>

\* _monitor_files, line 823: the iteration is over, the thread sleeps.
SweepSleep ==
    /\ pc[Sweeper] = "sw_next"
    /\ sweepQ = {}
    /\ pc' = [pc EXCEPT ![Sweeper] = "sw_sleep"]
    /\ UNCHANGED <<files, blacklist, now, tgt, md, pwok, ret, sweepQ, out, born,
                   streak, okCount, destroyed, expAtGlob, dmsAtGlob, wasReset, keep, ioVars, extVars>>

\* datetime.now() advances.
Tick ==
    /\ now < MaxTime
    /\ now' = now + 1
    /\ UNCHANGED <<files, blacklist, pc, tgt, md, pwok, ret, sweepQ, out, born,
                   streak, okCount, destroyed, expAtGlob, dmsAtGlob, wasReset, keep, ioVars, extVars>>

\* ------------------------------------------ export, import, delete, create
\* A caller outside any call: the operations below run from their first
\* line to their return in one step.
AtRest(p) ==
    /\ p \in Callers
    /\ pc[p] = "idle"
    /\ \A q \in Callers : q < p => pc[q] # "idle"

\* The operation that ended last; n alternates, so that io changes with
\* every operation.
Done(op, rec, result) ==
    [op |-> op, rec |-> rec, result |-> result, n |-> 1 - io.n]

\* No record: the rec of an operation that has not made an entry of one.
NoRec == [st |-> "none"]

\* An id that an entry made after construction was given (born records
\* no more of it).
Used == [st |-> "used"]

\* metadata["security"].get("disable_export", False)
ExportDisabled(m) == m.security.disable_export

\* export_file: shutil.copy of the metadata file, or nothing.
ExportFile(p, i, export_path) ==
    /\ AtRest(p)
    /\ LET f == files[i]
       IN  IF f = NoFile
           THEN /\ io' = Done("export_file", NoRec, "not_found")
                /\ UNCHANGED disk
           ELSE IF f = Wiped
           THEN /\ io' = Done("export_file", NoRec, "decode_error")
                /\ UNCHANGED disk
           ELSE IF ExportDisabled(f)
           THEN /\ io' = Done("export_file", NoRec, "export_refused")
                /\ UNCHANGED disk
           ELSE /\ disk' = [disk EXCEPT ![export_path] = f]
                /\ io' = Done("export_file", NoRec, "exported")
    /\ UNCHANGED <<files, blacklist, now, pc, tgt, md, pwok, ret, sweepQ, out, born,
                   streak, okCount, destroyed, expAtGlob, dmsAtGlob, wasReset, keep, faults, extVars>>

\* export_portable_file, lines 553-564: the portable record of an entry.
\* exported_from is not part of the record: it notes the entry the record
\* was exported from.
PortableData(m, file_content) ==
    [st |-> "portable",
     bar_portable_file |-> TRUE,
     creation_time |-> m.creation_time,
     security |-> m.security,
     encryption |-> m.encryption,
     content_hash |-> HashContent(file_content),
     failed_password_attempts |-> IF m.failed_password_attempts = Null THEN 0
                                  ELSE m.failed_password_attempts,
     access_count |-> m.access_count,
     exported_from |-> m.file_id]

\* Mutant: a wrong password given to the export is counted as a failed
\* attempt of the entry.
ExportPortableCountingFailures(p, i, password, export_path) ==
    /\ AtRest(p)
    /\ LET f == files[i]
       IN  IF f = NoFile
           THEN /\ io' = Done("export_portable_file", NoRec, "not_found")
                /\ UNCHANGED <<disk, files>>
           ELSE IF f = Wiped
           THEN /\ io' = Done("export_portable_file", NoRec, "decode_error")
                /\ UNCHANGED <<disk, files>>
           ELSE IF ExportDisabled(f)
           THEN /\ io' = Done("export_portable_file", NoRec, "export_refused")
                /\ UNCHANGED <<disk, files>>
           ELSE IF ~DecryptOk(f.encryption, password)
           THEN /\ io' = Done("export_portable_file", NoRec, "wrong_password")
                /\ files' = [files EXCEPT ![i] = AfterUnseal(f, password)]
                /\ UNCHANGED disk
           ELSE LET r == PortableData(f, Content(f.encryption))
                IN  /\ disk' = [disk EXCEPT ![export_path] = r]
                    /\ io' = Done("export_portable_file", NoRec, "exported")
                    /\ UNCHANGED files
    /\ UNCHANGED <<blacklist, now, pc, tgt, md, pwok, ret, sweepQ, out, born,
                   streak, okCount, destroyed, expAtGlob, dmsAtGlob, wasReset, keep, faults, extVars>>

\* Mutant: the password is verified before the export restriction is read.
ExportPortableUnsealFirst(p, i, password, export_path) ==
    /\ AtRest(p)
    /\ LET f == files[i]
       IN  IF f = NoFile
           THEN /\ io' = Done("export_portable_file", NoRec, "not_found")
                /\ UNCHANGED disk
           ELSE IF f = Wiped
           THEN /\ io' = Done("export_portable_file", NoRec, "decode_error")
                /\ UNCHANGED disk
           ELSE IF ~DecryptOk(f.encryption, password)
           THEN /\ io' = Done("export_portable_file", NoRec, "wrong_password")
                /\ UNCHANGED disk
           ELSE IF ExportDisabled(f)
           THEN /\ io' = Done("export_portable_file", NoRec, "export_refused")
                /\ UNCHANGED disk
           ELSE LET r == PortableData(f, Content(f.encryption))
                IN  /\ disk' = [disk EXCEPT ![export_path] = r]
                    /\ io' = Done("export_portable_file", NoRec, "exported")
    /\ UNCHANGED <<files, blacklist, now, pc, tgt, md, pwok, ret, sweepQ, out, born,
                   streak, okCount, destroyed, expAtGlob, dmsAtGlob, wasReset, keep, faults, extVars>>

\* export_portable_file
ExportPortable(p, i, password, export_path) ==
    /\ AtRest(p)
    /\ LET f == files[i]
       IN  IF f = NoFile
           THEN /\ io' = Done("export_portable_file", NoRec, "not_found")
                /\ UNCHANGED disk
           ELSE IF f = Wiped
           THEN /\ io' = Done("export_portable_file", NoRec, "decode_error")
                /\ UNCHANGED disk
           ELSE IF ExportDisabled(f)
           THEN /\ io' = Done("export_portable_file", NoRec, "export_refused")
                /\ UNCHANGED disk
           ELSE IF ~DecryptOk(f.encryption, password)
           THEN /\ io' = Done("export_portable_file", NoRec, "wrong_password")
                /\ UNCHANGED disk
           ELSE LET r == PortableData(f, Content(f.encryption))
                IN  /\ disk' = [disk EXCEPT ![export_path] = r]
                    /\ io' = Done("export_portable_file", NoRec, "exported")
    /\ UNCHANGED <<files, blacklist, now, pc, tgt, md, pwok, ret, sweepQ, out, born,
                   streak, okCount, destroyed, expAtGlob, dmsAtGlob, wasReset, keep, faults, extVars>>

\* Mutant: delete_file files the record in the blacklist as destruction does.
DeleteFileBlacklisting(p, i) ==
    /\ AtRest(p)
    /\ IF files[i] = NoFile
       THEN /\ io' = Done("delete_file", NoRec, "not_found")
            /\ UNCHANGED <<files, blacklist>>
       ELSE /\ files' = [files EXCEPT ![i] = NoFile]
            /\ blacklist' = IF IsJson(files[i]) THEN AddToBlacklist(blacklist, files[i])
                            ELSE blacklist
            /\ io' = Done("delete_file", NoRec, "deleted")
    /\ UNCHANGED <<now, pc, tgt, md, pwok, ret, sweepQ, out, born, streak,
                   okCount, destroyed, expAtGlob, dmsAtGlob, wasReset, keep, disk, faults, extVars>>

\* _delete_file: the metadata file is unlinked, whether it parses or not.
DeleteFile(p, i) ==
    /\ AtRest(p)
    /\ IF files[i] = NoFile
       THEN /\ io' = Done("delete_file", NoRec, "not_found")
            /\ UNCHANGED files
       ELSE /\ files' = [files EXCEPT ![i] = NoFile]
            /\ io' = Done("delete_file", NoRec, "deleted")
    /\ UNCHANGED <<blacklist, now, pc, tgt, md, pwok, ret, sweepQ, out, born, streak,
                   okCount, destroyed, expAtGlob, dmsAtGlob, wasReset, keep, disk, faults, extVars>>

\* The fingerprint of the host a record is imported on, and the
\* fingerprints a hardware-bound envelope can name: this host or another.
Hosts == {"h1"}
HardwareIds == {"h1", "h2"}

\* portable_data.get("bar_portable_file"): a copy made by export_file has no
\* such key.
Signed(r) == r.st = "portable" /\ r.bar_portable_file

\* Records made from an exported one by editing the file.
Unsigned(r) == [r EXCEPT !.bar_portable_file = FALSE]
WithoutHash(r) == [r EXCEPT !.content_hash = <<>>]
HardwareBound(r, h) ==
    [r EXCEPT !.encryption.hardware_id_hash = h, !.encryption.hardware_bound = "true"]

\* The files a caller can name as import_path: the files at the export
\* paths (NoFile: there is none) and edited copies of them.
ImportInputs ==
    LET found == {disk[path] : path \in Paths}
        portable == {r \in found : r.st = "portable"}
    IN  found \cup {Unsigned(r) : r \in portable}
             \cup {WithoutHash(r) : r \in portable}
             \cup {HardwareBound(r, h) : r \in portable, h \in HardwareIds}

\* Mutant: a hardware-bound envelope is unsealed only on the host it names.
ImportUnsealOnBoundHost(enc, password, host) ==
    IF DecryptOk(enc, password) /\ enc.hardware_id_hash \in {NoHw, host}
    THEN [ok |-> TRUE, encryption |-> enc]
    ELSE [ok |-> FALSE, encryption |-> enc]

\* import_portable_file, lines 604-640: the unseal attempt, and the envelope
\* the new entry gets.  An envelope with a hardware_id_hash is first tried
\* without it, then as it is.  `host` is the fingerprint of the importing
\* host, which the code does not read.
ImportUnseal(enc, password, host) ==
    IF enc.hardware_id_hash # NoHw
    THEN LET copy == [enc EXCEPT !.hardware_id_hash = NoHw, !.hardware_bound = "false"]
         IN  IF DecryptOk(copy, password) THEN [ok |-> TRUE, encryption |-> copy]
             ELSE IF DecryptOk(enc, password) THEN [ok |-> TRUE, encryption |-> enc]
             ELSE [ok |-> FALSE, encryption |-> enc]
    ELSE IF DecryptOk(enc, password) THEN [ok |-> TRUE, encryption |-> enc]
    ELSE [ok |-> FALSE, encryption |-> enc]

\* Mutant: the blacklist is checked after the unseal attempt.
ImportResultUnsealFirst(r, password, host) ==
    IF r = NoFile THEN "unreadable"
    ELSE IF ~Signed(r) THEN "bad_signature"
    ELSE IF ~ImportUnseal(r.encryption, password, host).ok THEN "wrong_password"
    ELSE IF r.content_hash # <<>> /\ IsBlacklisted(blacklist, r.content_hash)
    THEN "blacklisted"
    ELSE "imported"

\* Mutant: a signature marker that is false is accepted.
ImportResultUnsigned(r, password, host) ==
    IF r = NoFile THEN "unreadable"
    ELSE IF r.st # "portable" THEN "bad_signature"
    ELSE IF r.content_hash # <<>> /\ IsBlacklisted(blacklist, r.content_hash)
    THEN "blacklisted"
    ELSE IF ~ImportUnseal(r.encryption, password, host).ok THEN "wrong_password"
    ELSE "imported"

\* import_portable_file, lines 592-640: how the call on record r ends.
ImportResult(r, password, host) ==
    IF r = NoFile THEN "unreadable"
    ELSE IF ~Signed(r) THEN "bad_signature"
    ELSE IF r.content_hash # <<>> /\ IsBlacklisted(blacklist, r.content_hash)
    THEN "blacklisted"
    ELSE IF ~ImportUnseal(r.encryption, password, host).ok THEN "wrong_password"
    ELSE "imported"

\* The ids uuid4 can still give: those no entry ever had.
Fresh == {i \in NewIds : files[i] = NoFile /\ born[i] = NoFile}

\* _generate_file_id
GenerateFileId == CHOOSE i \in Fresh : TRUE

\* Mutant: the import resets the counters of the record.
PortableMetadataReset(file_id, r, enc, current_time) ==
    [st |-> "json",
     file_id |-> file_id,
     last_accessed |-> current_time,
     access_count |-> 0,
     creation_time |-> r.creation_time,
     security |-> r.security,
     encryption |-> enc,
     content_hash |-> IF r.content_hash # <<>> THEN r.content_hash
                      ELSE HashContent(Content(enc)),
     failed_password_attempts |-> 0]

\* import_portable_file, lines 646-660: the metadata of the new entry.
PortableMetadata(file_id, r, enc, current_time) ==
    [st |-> "json",
     file_id |-> file_id,
     last_accessed |-> current_time,
     access_count |-> r.access_count,
     creation_time |-> r.creation_time,
     security |-> r.security,
     encryption |-> enc,
     content_hash |-> IF r.content_hash # <<>> THEN r.content_hash
                      ELSE HashContent(Content(enc)),
     failed_password_attempts |-> r.failed_password_attempts]

\* import_portable_file, after the checks: the entry is persisted under a
\* new id, or the call fails and nothing is written.
FinishImport(op, r, password, host, result) ==
    IF result = "imported"
    THEN /\ Fresh # {}
         /\ LET file_id == GenerateFileId
                m == PortableMetadata(file_id, r,
                                      ImportUnseal(r.encryption, password, host).encryption,
                                      now)
            IN  /\ files' = [files EXCEPT ![file_id] = m]
                /\ born' = [born EXCEPT ![file_id] = Used]
                /\ io' = Done(op, r, result)
    ELSE /\ io' = Done(op, NoRec, result)
         /\ UNCHANGED <<files, born>>

\* import_portable_file
ImportPortable(p, r, password, host) ==
    /\ AtRest(p)
    /\ FinishImport("import_portable_file", r, password, host,
                    ImportResult(r, password, host))
    /\ UNCHANGED <<blacklist, now, pc, tgt, md, pwok, ret, sweepQ, out, streak, okCount,
                   destroyed, expAtGlob, dmsAtGlob, wasReset, keep, disk, faults, extVars>>

\* FileScanner.import_found_file: _validate_bar_file, the expiry check, then
\* import_portable_file.
ImportFound(p, r, password, host) ==
    /\ AtRest(p)
    /\ FinishImport("import_found_file", r, password, host,
                    IF r = NoFile \/ ~Signed(r) THEN "invalid"
                    ELSE IF r.security.expiration_time # Null
                              /\ now > r.security.expiration_time
                    THEN "expired"
                    ELSE ImportResult(r, password, host))
    /\ UNCHANGED <<blacklist, now, pc, tgt, md, pwok, ret, sweepQ, out, streak, okCount,
                   destroyed, expAtGlob, dmsAtGlob, wasReset, keep, disk, faults, extVars>>

\* import_file: a metadata file is copied into the store under its own
\* file_id, or under a new one when an entry with that id exists.
ImportFile(p, r) ==
    /\ AtRest(p)
    /\ IF r.st # "json"
       THEN \* no file_id key: "Not a valid BAR file"
            /\ io' = Done("import_file", NoRec, "invalid")
            /\ UNCHANGED <<files, born>>
       ELSE /\ files[r.file_id] # NoFile => Fresh # {}
            /\ LET file_id == IF files[r.file_id] # NoFile THEN GenerateFileId
                              ELSE r.file_id
                   m == [r EXCEPT !.file_id = file_id]
               IN  /\ files' = [files EXCEPT ![file_id] = m]
                   /\ born' = [born EXCEPT ![file_id] = Used]
                   /\ io' = Done("import_file", r, "imported")
    /\ UNCHANGED <<blacklist, now, pc, tgt, md, pwok, ret, sweepQ, out, streak, okCount,
                   destroyed, expAtGlob, dmsAtGlob, wasReset, keep, disk, faults, extVars>>

\* ------------------------------------------------------ specifications
\* The threads interleave freely: the program takes no lock.
Next ==
    \/ \E p \in Callers, i \in Ids, password \in Passwords : AccessLoad(p, i, password)
    \/ \E p \in Callers : AccessWriteFail(p)
    \/ \E p \in Callers : AccessWriteOk(p)
    \/ \E p \in Procs : SdfRead(p)
    \/ \E p \in Procs : SdfWipe(p)
    \/ \E p \in Procs : SdfUnlink(p)
    \/ SweepGlob
    \/ \E i \in AllIds : SweepEval(i)
    \/ SweepSleep

Spec == Init /\ [][Next]_vars

\* No thread other than p is inside an operation.
Quiet(p) == \A q \in Procs \ {p} : pc[q] \in RestPcs

\* Sequential runs: every operation (an access_file call, the evaluation of
\* one entry by the monitor thread, a destruction thread's deletion) runs
\* to its end before another thread moves or the clock advances.
NextSeq ==
    \/ Quiet(-1) /\ Tick
    \/ \E p \in Callers, i \in Ids, password \in Passwords :
          Quiet(p) /\ AccessLoad(p, i, password)
    \/ \E p \in Callers : Quiet(p) /\ AccessWriteFail(p)
    \/ \E p \in Callers : Quiet(p) /\ AccessWriteOk(p)
    \/ \E p \in Procs : Quiet(p) /\ SdfRead(p)
    \/ \E p \in Procs : Quiet(p) /\ SdfWipe(p)
    \/ \E p \in Procs : Quiet(p) /\ SdfUnlink(p)
    \/ Quiet(Sweeper) /\ SweepGlob
    \/ \E i \in AllIds : Quiet(Sweeper) /\ SweepEval(i)
    \/ Quiet(Sweeper) /\ SweepSleep

SpecSeq == InitSeq /\ [][NextSeq]_vars

\* A started operation runs to its end, and a spawned destruction thread
\* is eventually scheduled; no call, sweep or tick is ever forced.
OpStep(p) ==
    \/ AccessWriteFail(p)
    \/ AccessWriteOk(p)
    \/ SdfRead(p)
    \/ SdfWipe(p)
    \/ SdfUnlink(p)

Fairness ==
    /\ \A p \in Callers \cup {Sweeper} : WF_vars(Quiet(p) /\ OpStep(p))
    /\ \A t \in Tasks : SF_vars(Quiet(t) /\ OpStep(t))

InitFair == Store(0) /\ keep = {"out"} /\ IoRest

SpecSeqFair == InitFair /\ [][NextSeq]_vars /\ Fairness

\* The store with export, import and delete: the policies of the entries
\* the store is constructed on.
IoPolicies ==
    [expiration_time : {Null},
     max_access_count : {1},
     deadman_switch : {Null},
     disable_export : BOOLEAN]

\* The entries were persisted at time 0; the operations run at time 1.
InitIO ==
    /\ StoreOf(1, IoPolicies, {2})
    /\ keep = {"destroyed"}
    /\ disk = [path \in Paths |-> NoFile]
    /\ io = NoIo
    /\ faults = {}
    /\ ExtRest

\* Every operation runs to its end before another thread moves; the clock
\* stands still, access_file is called with the entry's password, and the
\* monitor thread sleeps.
NextIO ==
    \/ \E p \in Callers, i \in AllIds : Quiet(p) /\ AccessLoad(p, i, "pw1")
    \/ \E p \in Callers : Quiet(p) /\ AccessWriteOk(p)
    \/ \E p \in Procs : Quiet(p) /\ SdfRead(p)
    \/ \E p \in Procs : Quiet(p) /\ SdfWipe(p)
    \/ \E p \in Procs : Quiet(p) /\ SdfUnlink(p)
    \/ \E p \in Callers, i \in AllIds, export_path \in Paths :
          Quiet(p) /\ ExportFile(p, i, export_path)
    \/ \E p \in Callers, i \in AllIds, password \in Passwords, export_path \in Paths :
          Quiet(p) /\ ExportPortable(p, i, password, export_path)
    \/ \E p \in Callers, i \in AllIds : Quiet(p) /\ DeleteFile(p, i)
    \/ \E p \in Callers, r \in ImportInputs, password \in Passwords, host \in Hosts :
          Quiet(p) /\ ImportPortable(p, r, password, host)
    \/ \E p \in Callers, r \in ImportInputs, password \in Passwords, host \in Hosts :
          Quiet(p) /\ ImportFound(p, r, password, host)
    \/ \E p \in Callers, r \in ImportInputs : Quiet(p) /\ ImportFile(p, r)

SpecIO == InitIO /\ [][NextIO]_vars

\* Sequential runs in which any of the auxiliary steps of
\* _secure_delete_file fail.
InitFault ==
    /\ Store(0)
    /\ keep = {"destroyed"}
    /\ disk = [path \in Paths |-> NoFile]
    /\ io = NoIo
    /\ faults \in {{}, AuxSteps} \cup {{step} : step \in AuxSteps}
    /\ ExtRest

SpecFault == InitFault /\ [][NextSeq]_vars

\* ------------------------------------- SecureDelete.secure_delete_file
\* One call of secure_delete_file(file_path, passes), followed operation by
\* operation on the file: its bytes, whether all that was written has
\* reached the disk, and whether its directory entry exists.

\* The operations of the call that can raise (OSError, PermissionError).
SdOps == {"open", "write", "fsync", "truncate", "remove"}

\* Mutant: the first pass writes ones and the second zeros.
PatternOnesFirst(pass_num) ==
    IF pass_num = 0 THEN "ones"
    ELSE IF pass_num = 1 THEN "zeros"
    ELSE "random"

\* Lines 50-58: the pattern of a pass.
Pattern(pass_num) ==
    IF pass_num = 0 THEN "zeros"
    ELSE IF pass_num = 1 THEN "ones"
    ELSE "random"

\* A call about to start: on a file of `size` bytes of data, or on a path
\* where no file is; `fault` is the operation that raises, "none" when all
\* work; `caller` is "sdf" when _secure_delete_file makes the call on a
\* metadata file it found to exist, with the default number of passes.
SdCall(caller, exists, size, passes, fault) ==
    [pc |-> "called", caller |-> caller, passes |-> passes, fault |-> fault,
     exists |-> exists, bytes |-> [k \in 1..size |-> "data"], durable |-> TRUE,
     file_size |-> 0, pass_num |-> 0, bytes_written |-> 0,
     synced_passes |-> 0, truncated |-> FALSE, size_at_unlink |-> Null,
     result |-> "none", sdf_result |-> "none"]

SdCalls ==
    {SdCall("direct", exists, IF exists THEN size ELSE 0, passes, fault) :
        exists \in BOOLEAN, size \in 0..MaxBytes, passes \in 0..MaxPasses,
        fault \in SdOps \cup {"none"}}
    \cup {SdCall("sdf", TRUE, size, DefaultPasses, fault) :
            size \in 1..MaxBytes, fault \in SdOps \cup {"none"}}

\* Lines 81-83: an exception of any operation is logged and the call
\* returns False; the file is left as it is at that point.
SdFail == [sd EXCEPT !.pc = "returned", !.result = "false"]

\* Lines 32-36: the existence check.
SdExists ==
    /\ sd.pc = "called"
    /\ sd' = IF sd.exists THEN [sd EXCEPT !.pc = "open"]
             ELSE [sd EXCEPT !.pc = "returned", !.result = "false"]
    /\ UNCHANGED <<storeVars, scan, val, seal, dup>>

\* Lines 40-45: stat and open(file_path, "r+b"); the first pass starts, or
\* none when passes is 0.
SdOpen ==
    /\ sd.pc = "open"
    /\ sd' = IF sd.fault = "open" THEN SdFail
             ELSE [sd EXCEPT !.file_size = Len(sd.bytes),
                             !.pass_num = 0,
                             !.bytes_written = 0,
                             !.pc = IF 0 < sd.passes THEN "write" ELSE "truncate"]
    /\ UNCHANGED <<storeVars, scan, val, seal, dup>>

\* Lines 62-65: one chunk of the pattern is written at the file position.
SdWrite ==
    /\ sd.pc = "write"
    /\ sd.bytes_written < sd.file_size
    /\ LET chunk_size == Min(ChunkBytes, sd.file_size - sd.bytes_written)
           written == (sd.bytes_written + 1)..(sd.bytes_written + chunk_size)
       IN  sd' = IF sd.fault = "write" THEN SdFail
                 ELSE [sd EXCEPT !.bytes = [k \in DOMAIN sd.bytes |->
                                              IF k \in written THEN Pattern(sd.pass_num)
                                              ELSE sd.bytes[k]],
                                 !.bytes_written = @ + chunk_size,
                                 !.durable = FALSE]
    /\ UNCHANGED <<storeVars, scan, val, seal, dup>>

\* Line 68: f.flush() once the pass has written file_size bytes.
SdFlush ==
    /\ sd.pc = "write"
    /\ sd.bytes_written >= sd.file_size
    /\ sd' = [sd EXCEPT !.pc = "fsync"]
    /\ UNCHANGED <<storeVars, scan, val, seal, dup>>

\* Line 69 and the loop of line 45: os.fsync, then the next pass or the
\* truncation.
SdFsync ==
    /\ sd.pc = "fsync"
    /\ sd' = IF sd.fault = "fsync" THEN SdFail
             ELSE [sd EXCEPT !.durable = TRUE,
                             !.synced_passes = @ + 1,
                             !.pass_num = @ + 1,
                             !.bytes_written = 0,
                             !.pc = IF sd.pass_num + 1 < sd.passes THEN "write"
                                    ELSE "truncate"]
    /\ UNCHANGED <<storeVars, scan, val, seal, dup>>

\* Mutant: the file is not truncated before it is unlinked.
SdTruncateSkipped ==
    /\ sd.pc = "truncate"
    /\ sd' = IF sd.fault = "truncate" THEN SdFail
             ELSE [sd EXCEPT !.pc = "truncate_sync"]
    /\ UNCHANGED <<storeVars, scan, val, seal, dup>>

\* Line 72: f.truncate(0)
SdTruncate ==
    /\ sd.pc = "truncate"
    /\ sd' = IF sd.fault = "truncate" THEN SdFail
             ELSE [sd EXCEPT !.bytes = <<>>, !.durable = FALSE, !.truncated = TRUE,
                             !.pc = "truncate_sync"]
    /\ UNCHANGED <<storeVars, scan, val, seal, dup>>

\* Lines 73-74: flush and fsync of the truncation; the file is closed.
SdTruncateSync ==
    /\ sd.pc = "truncate_sync"
    /\ sd' = [sd EXCEPT !.durable = TRUE, !.pc = "remove"]
    /\ UNCHANGED <<storeVars, scan, val, seal, dup>>

\* Lines 77-79: os.remove, return True.
SdRemove ==
    /\ sd.pc = "remove"
    /\ sd' = IF sd.fault = "remove" THEN SdFail
             ELSE [sd EXCEPT !.exists = FALSE, !.size_at_unlink = Len(sd.bytes),
                             !.pc = "returned", !.result = "true"]
    /\ UNCHANGED <<storeVars, scan, val, seal, dup>>

\* _secure_delete_file, lines 459-474: the call of secure_delete_file on
\* the metadata file has returned, True or False, without raising, so the
\* handler with the os.remove fallback does not run; the function returns
\* True.
SdfAfterErase ==
    /\ sd.pc = "returned"
    /\ sd.caller = "sdf"
    /\ sd' = [sd EXCEPT !.pc = "sdf_returned", !.sdf_result = "true"]
    /\ UNCHANGED <<storeVars, scan, val, seal, dup>>

\* The policy of an entry without constraints.
NoPolicy ==
    [expiration_time : {Null},
     max_access_count : {Null},
     deadman_switch : {Null},
     disable_export : {FALSE}]

InitErase ==
    /\ StoreOf(0, NoPolicy, {0})
    /\ keep = {}
    /\ disk = [path \in Paths |-> NoFile]
    /\ io = NoIo
    /\ faults = {}
    /\ sd \in SdCalls
    /\ scan = NoScan
    /\ val = NoVal
    /\ seal = NoSeal
    /\ dup = NoDup

NextErase ==
    \/ SdExists
    \/ SdOpen
    \/ SdWrite
    \/ SdFlush
    \/ SdFsync
    \/ SdTruncate
    \/ SdTruncateSync
    \/ SdRemove
    \/ SdfAfterErase

SpecErase == InitErase /\ [][NextErase]_vars

\* ---------------------------------------------------------- FileScanner
\* The callers of scan_device, scan_removable_devices and stop_scan and the
\* scan threads interleave at the reads and writes of scan_in_progress and
\* at the files a scan thread processes.
ScanKinds == {"device", "removable"}

Alive == {t \in ScanThreads : scan.thr[t].pc # "free"}

\* scan_device, lines 141-146, and scan_removable_devices, lines 447-455:
\* the call is rejected while scan_in_progress is set or when there is
\* nothing to scan (`found`: the path exists, a removable device is there).
ScanCheck(c, kind, found) ==
    /\ scan.cpc[c] = "idle"
    /\ scan' = IF scan.scan_in_progress
               THEN [scan EXCEPT !.reply = "already_in_progress"]
               ELSE IF ~found
               THEN [scan EXCEPT !.reply = "nothing_to_scan"]
               ELSE [scan EXCEPT !.cpc[c] = kind, !.reply = "none"]
    /\ UNCHANGED <<storeVars, sd, val, seal, dup>>

\* Lines 149-167 and 458-475: scan_in_progress is set and the scan thread is
\* started, on a tree of `total` files or on `devices` removable devices,
\* with or without a callback; scan_results is a new dictionary with the
\* status "in_progress" and no files.
ScanStart(c, devices, total, callback) ==
    /\ scan.cpc[c] \in ScanKinds
    /\ Alive # ScanThreads
    /\ LET t == CHOOSE u \in ScanThreads \ Alive : \A v \in ScanThreads \ Alive : u <= v
           kind == scan.cpc[c]
       IN  scan' = [scan EXCEPT
                       !.scan_in_progress = TRUE,
                       !.cpc[c] = "idle",
                       !.reply = "started",
                       !.status = "in_progress",
                       !.nfiles = 0,
                       !.thr[t] = [pc |-> IF kind = "device" THEN "walk" ELSE "between",
                                   kind |-> kind,
                                   devices |-> IF kind = "device" THEN 0 ELSE devices,
                                   files |-> IF kind = "device" THEN total ELSE 0,
                                   stop_requested |-> FALSE,
                                   after_stop |-> 0,
                                   callback |-> callback]]
    /\ UNCHANGED <<storeVars, sd, val, seal, dup>>

\* _scan_removable_devices_thread, lines 489-507: at the top of the loop
\* over the devices the thread reads scan_in_progress and, when it is set,
\* goes into the next device, of `total` files.
ScanNextDevice(t, total) ==
    /\ scan.thr[t].pc = "between"
    /\ scan.thr[t].devices > 0
    /\ scan.scan_in_progress
    /\ scan' = [scan EXCEPT !.thr[t].pc = "walk",
                            !.thr[t].devices = @ - 1,
                            !.thr[t].files = total]
    /\ UNCHANGED <<storeVars, sd, val, seal, dup>>

\* _scan_directory, lines 261-282: the next file of the walk is processed,
\* and appended to scan_results["files"] when it is a valid .bar file
\* (`found`); scan_in_progress is not read.
ScanFile(t, found) ==
    /\ scan.thr[t].pc = "walk"
    /\ scan.thr[t].files > 0
    /\ found => scan.nfiles # Null /\ scan.nfiles < MaxFiles
    /\ scan' = [scan EXCEPT !.thr[t].files = @ - 1,
                            !.nfiles = IF found THEN @ + 1 ELSE @,
                            !.thr[t].after_stop =
                                IF scan.thr[t].stop_requested THEN Min(@ + 1, MaxFiles)
                                ELSE @]
    /\ UNCHANGED <<storeVars, sd, val, seal, dup>>

\* _scan_directory returns: the walk of a removable device is over.
ScanDeviceDone(t) ==
    /\ scan.thr[t].pc = "walk"
    /\ scan.thr[t].files = 0
    /\ scan.thr[t].kind = "removable"
    /\ scan' = [scan EXCEPT !.thr[t].pc = "between"]
    /\ UNCHANGED <<storeVars, sd, val, seal, dup>>

\* Mutant: a thread that ends after stop_scan skips its finally clause.
ScanThreadEndSilentAfterStop(t) ==
    /\ \/ scan.thr[t].pc = "walk" /\ scan.thr[t].files = 0 /\ scan.thr[t].kind = "device"
       \/ scan.thr[t].pc = "between"
            /\ (scan.thr[t].devices = 0 \/ ~scan.scan_in_progress)
    /\ LET status == IF scan.nfiles = Null THEN "error" ELSE "completed"
       IN  scan' = IF scan.thr[t].stop_requested
                   THEN [scan EXCEPT !.status = status, !.thr[t] = NoThread]
                   ELSE [scan EXCEPT !.scan_in_progress = FALSE,
                                     !.status = status,
                                     !.delivered = IF scan.thr[t].callback THEN status ELSE @,
                                     !.thr[t] = NoThread]
    /\ UNCHANGED <<storeVars, sd, val, seal, dup>>

\* _scan_thread, lines 204-234, and _scan_removable_devices_thread, lines
\* 490-492 and 526-559: the walk is over, or the loop over the devices is
\* over or left by break; the status of scan_results becomes "completed"
\* (the grouping of the files that follows fails when scan_results has no
\* "files" key, and the handler puts the error in its place), the finally
\* clause clears scan_in_progress and calls the callback, if there is one,
\* with scan_results, and the thread ends.
ScanThreadEnd(t) ==
    /\ \/ scan.thr[t].pc = "walk" /\ scan.thr[t].files = 0 /\ scan.thr[t].kind = "device"
       \/ scan.thr[t].pc = "between"
            /\ (scan.thr[t].devices = 0 \/ ~scan.scan_in_progress)
    /\ LET status == IF scan.nfiles = Null THEN "error" ELSE "completed"
       IN  scan' = [scan EXCEPT !.scan_in_progress = FALSE,
                                !.status = status,
                                !.delivered = IF scan.thr[t].callback THEN status ELSE @,
                                !.thr[t] = NoThread]
    /\ UNCHANGED <<storeVars, sd, val, seal, dup>>

\* _scan_thread, lines 228-234, and _scan_removable_devices_thread, lines
\* 553-559: an exception in the thread (from the callback's progress
\* report, or from an append to a scan_results without "files") replaces
\* scan_results by the error, which has no "files" key; the finally clause
\* runs as above.
ScanError(t) ==
    /\ scan.thr[t].pc # "free"
    /\ scan.thr[t].callback \/ scan.nfiles = Null
    /\ scan' = [scan EXCEPT !.scan_in_progress = FALSE,
                            !.status = "error",
                            !.nfiles = Null,
                            !.delivered = IF scan.thr[t].callback THEN "error" ELSE @,
                            !.thr[t] = NoThread]
    /\ UNCHANGED <<storeVars, sd, val, seal, dup>>

\* stop_scan, lines 567-577: scan_in_progress is cleared; the join waits
\* for the scan thread for one second at most, so the call returns whether
\* the thread has ended or not.
StopScan(c) ==
    /\ scan.cpc[c] = "idle"
    /\ scan' = IF ~scan.scan_in_progress
               THEN [scan EXCEPT !.reply = "not_running"]
               ELSE [scan EXCEPT
                        !.scan_in_progress = FALSE,
                        !.reply = "stopped",
                        !.status = "stopped",
                        !.thr = [t \in ScanThreads |->
                                   IF t \in Alive
                                   THEN [scan.thr[t] EXCEPT !.stop_requested = TRUE]
                                   ELSE scan.thr[t]]]
    /\ UNCHANGED <<storeVars, sd, val, seal, dup>>

InitScan ==
    /\ StoreOf(0, NoPolicy, {0})
    /\ keep = {}
    /\ disk = [path \in Paths |-> NoFile]
    /\ io = NoIo
    /\ faults = {}
    /\ sd = NoSd
    /\ scan = NoScan
    /\ val = NoVal
    /\ seal = NoSeal
    /\ dup = NoDup

\* Scans without callbacks, started and stopped by several callers.
NextScan ==
    \/ \E c \in Callers, kind \in ScanKinds, found \in BOOLEAN : ScanCheck(c, kind, found)
    \/ \E c \in Callers, devices \in 1..MaxDevices, total \in 0..MaxFiles :
          ScanStart(c, devices, total, FALSE)
    \/ \E t \in ScanThreads, total \in 0..MaxFiles : ScanNextDevice(t, total)
    \/ \E t \in ScanThreads, found \in BOOLEAN : ScanFile(t, found)
    \/ \E t \in ScanThreads : ScanDeviceDone(t)
    \/ \E t \in ScanThreads : ScanThreadEnd(t)
    \/ \E c \in Callers : StopScan(c)

SpecScan == InitScan /\ [][NextScan]_vars

\* get_scan_progress, lines 399-425: "not_running" unless scan_in_progress
\* is set.
GetScanProgress(c) ==
    /\ scan.cpc[c] = "idle"
    /\ scan' = [scan EXCEPT !.reply = IF scan.scan_in_progress THEN "in_progress"
                                      ELSE "not_running"]
    /\ UNCHANGED <<storeVars, sd, val, seal, dup>>

\* The caller of the user interface, which makes its calls one at a time.
MainCaller == 1

\* A step of scan thread t that its code takes on its own.
ScanThreadStep(t) ==
    \/ \E total \in 0..MaxFiles : ScanNextDevice(t, total)
    \/ \E found \in BOOLEAN : ScanFile(t, found)
    \/ ScanDeviceDone(t)
    \/ ScanThreadEnd(t)

\* Scans with and without callbacks, started, stopped and polled by one
\* caller, with exceptions in the scan threads.
NextScanFair ==
    \/ \E kind \in ScanKinds, found \in BOOLEAN : ScanCheck(MainCaller, kind, found)
    \/ \E devices \in 1..MaxDevices, total \in 0..MaxFiles, callback \in BOOLEAN :
          ScanStart(MainCaller, devices, total, callback)
    \/ \E t \in ScanThreads : ScanThreadStep(t)
    \/ \E t \in ScanThreads : ScanError(t)
    \/ StopScan(MainCaller)
    \/ GetScanProgress(MainCaller)

\* FileScanner.__init__ over a vault with no entries.
InitScanFair ==
    /\ files = [i \in AllIds |-> NoFile]
    /\ born = files
    /\ blacklist = {}
    /\ now = 0
    /\ pc = [p \in Procs |-> IF p = Sweeper THEN "sw_sleep" ELSE "idle"]
    /\ tgt = [p \in Procs |-> NoId]
    /\ md = [p \in Procs |-> NoMd]
    /\ pwok = [p \in Procs |-> FALSE]
    /\ ret = [p \in Procs |-> "none"]
    /\ sweepQ = {}
    /\ out = NoOut
    /\ streak = [i \in AllIds |-> 0]
    /\ okCount = [i \in AllIds |-> 0]
    /\ destroyed = {}
    /\ expAtGlob = {}
    /\ dmsAtGlob = {}
    /\ wasReset = {}
    /\ keep = {}
    /\ disk = [path \in Paths |-> NoFile]
    /\ io = NoIo
    /\ faults = {}
    /\ ExtRest

\* A started scan thread is scheduled again and again until it ends.
SpecScanFair ==
    /\ InitScanFair
    /\ [][NextScanFair]_vars
    /\ \A t \in ScanThreads : WF_vars(ScanThreadStep(t))

\* ------------------------------------------ FileScanner._validate_bar_file
\* A key of the JSON object: missing, present with the value null, or
\* present with a value.
Presence == {"absent", "null", "set"}

\* The values of the version key: a version that matches
\* BAR_FILE_VERSION_PATTERN, one that does not, and the string "unknown".
Versions == {"absent", "1.0", "v1", "unknown"}

\* The files _validate_bar_file can be given.
BarFiles ==
    [size : {BarFileMinSize - 1, BarFileMinSize},
     json : BOOLEAN,
     bar_portable_file : {"absent", "false", "true"},
     version : Versions,
     filename : {"absent", "set"},
     encryption : {"absent", "set"},
     creation_time : Presence,
     content_hash : Presence,
     security : Presence]

\* re.match(BAR_FILE_VERSION_PATTERN, version)
VersionMatches(version) == version = "1.0"

\* data.get("version", "unknown")
VersionOf(data) == IF data.version = "absent" THEN "unknown" ELSE data.version

OptionalFields == {"creation_time", "content_hash", "security"}

\* Lines 366-379: the integrity score of an accepted record.
IntegrityScore(data) ==
    LET missing == Cardinality({field \in OptionalFields : data[field] = "absent"})
        integrity_score == 100 - 10 * missing
                               - (IF VersionOf(data) = "unknown" THEN 10 ELSE 0)
    IN  IF integrity_score < 0 THEN 0 ELSE integrity_score

\* The call returns None; `counted` when invalid_bar_files was increased.
Rejected(counted) == [accepted |-> FALSE, counted |-> counted, integrity_score |-> Null]

\* _validate_bar_file: what the call returns for the file.
ValidateBarFile(data) ==
    IF data.size < BarFileMinSize THEN Rejected(FALSE)
    ELSE IF ~data.json THEN Rejected(TRUE)
    ELSE IF data.bar_portable_file # "true" THEN Rejected(TRUE)
    ELSE IF VersionOf(data) # "unknown" /\ ~VersionMatches(VersionOf(data)) THEN Rejected(TRUE)
    ELSE IF data.filename = "absent" \/ data.encryption = "absent" THEN Rejected(TRUE)
    ELSE [accepted |-> TRUE, counted |-> FALSE, integrity_score |-> IntegrityScore(data)]

Validate ==
    /\ val.pc = "given"
    /\ val' = [pc |-> "returned", data |-> val.data, result |-> ValidateBarFile(val.data)]
    /\ UNCHANGED <<storeVars, sd, scan, seal, dup>>

InitValidate ==
    /\ StoreOf(0, NoPolicy, {0})
    /\ keep = {}
    /\ disk = [path \in Paths |-> NoFile]
    /\ io = NoIo
    /\ faults = {}
    /\ sd = NoSd
    /\ scan = NoScan
    /\ \E data \in BarFiles : val = [pc |-> "given", data |-> data, result |-> Rejected(FALSE)]
    /\ seal = NoSeal
    /\ dup = NoDup

NextValidate == Validate

SpecValidate == InitValidate /\ [][NextValidate]_vars

\* ------------------------------------------------ the sweep on its own
\* The records the sweep finds in the metadata directory: an entry with or
\* without an expiration time, or a file that does not parse.
SweepRecords(i) ==
    {Wiped} \cup {NewMetadata(i, "pw1", policy, 0) :
                     policy \in [expiration_time : {Null, 1},
                                 max_access_count : {Null},
                                 deadman_switch : {Null},
                                 disable_export : {FALSE}]}

\* A store of two entries, after the expiration time of those that have
\* one; some auxiliary steps of _secure_delete_file fail.
InitSweep ==
    /\ files \in {f \in [AllIds -> UNION {SweepRecords(i) : i \in AllIds}] :
                     \A i \in AllIds : f[i] \in SweepRecords(i)}
    /\ born = files
    /\ blacklist = {}
    /\ now = 2
    /\ pc = [p \in Procs |-> IF p = Sweeper THEN "sw_sleep" ELSE "idle"]
    /\ tgt = [p \in Procs |-> NoId]
    /\ md = [p \in Procs |-> NoMd]
    /\ pwok = [p \in Procs |-> FALSE]
    /\ ret = [p \in Procs |-> "none"]
    /\ sweepQ = {}
    /\ out = NoOut
    /\ streak = [i \in AllIds |-> 0]
    /\ okCount = [i \in AllIds |-> 0]
    /\ destroyed = {}
    /\ expAtGlob = {}
    /\ dmsAtGlob = {}
    /\ wasReset = {}
    /\ keep = {"expAtGlob", "destroyed"}
    /\ disk = [path \in Paths |-> NoFile]
    /\ io = NoIo
    /\ faults \in {{}, AuxSteps} \cup {{step} : step \in AuxSteps}
    /\ ExtRest

\* _monitor_files and the _secure_delete_file calls it makes.
NextSweep ==
    \/ SweepGlob
    \/ \E i \in AllIds : SweepEval(i)
    \/ SweepSleep
    \/ SdfRead(Sweeper)
    \/ SdfWipe(Sweeper)
    \/ SdfUnlink(Sweeper)

SpecSweep == InitSweep /\ [][NextSweep]_vars

\* ------------------------------------------------- concurrent accesses
\* The policies of the entries that threads access at once.
RacePolicies ==
    [expiration_time : {Null},
     max_access_count : {Null, 1},
     deadman_switch : {Null},
     disable_export : {FALSE}]

\* The threads of the store with the calls on an entry counted.
InitRace ==
    /\ StoreOf(0, RacePolicies, {0})
    /\ keep = {"streak", "okCount", "destroyed"}
    /\ IoRest

SpecRace == InitRace /\ [][Next]_vars

\* ------------------------------------------------------ create_secure_file
\* The file names given to create_secure_file.
Filenames == {"photo.jpg", "PHOTO.JPG", "notes.txt", "README"}

\* os.path.splitext(filename.lower())[1]
LowerExt(filename) ==
    CASE filename = "photo.jpg" -> ".jpg"
      [] filename = "PHOTO.JPG" -> ".jpg"
      [] filename = "notes.txt" -> ".txt"
      [] OTHER -> ""

\* _is_media_file, lines 81-91: media_extensions.
MediaExtensions ==
    {".jpg", ".jpeg", ".png", ".gif", ".bmp", ".tiff", ".webp", ".svg",
     ".mp3", ".wav", ".ogg", ".flac", ".aac", ".m4a",
     ".mp4", ".avi", ".mov", ".wmv", ".mkv", ".webm", ".flv",
     ".pdf", ".psd", ".ai", ".eps"}

\* The bytes of a payload: those of the JPEG signature, the first two of
\* the RIFF signature, and a byte of text.
Bytes == {"ff", "d8", "R", "I", "t"}

\* The payloads given to create_secure_file.
Contents == UNION {[1..n -> Bytes] : n \in 0..MaxContent}

\* _is_media_file, lines 100-110: signatures (JPEG in full, RIFF by its
\* first two bytes).
Signatures == {<<"ff", "d8", "ff">>, <<"R", "I">>}

\* content[:20] if len(content) >= 20 else content
Header(content) ==
    IF Len(content) >= HeaderBytes THEN SubSeq(content, 1, HeaderBytes) ELSE content

\* sig in header: the bytes of sig occur in header, at any offset.
Occurs(sig, header) ==
    \E k \in 0..(Len(header) - Len(sig)) : SubSeq(header, k + 1, k + Len(sig)) = sig

\* _is_media_file
IsMediaFile(filename, content) ==
    IF LowerExt(filename) \in MediaExtensions THEN TRUE
    ELSE \E sig \in Signatures : Occurs(sig, Header(content))

\* The security_settings given to create_secure_file; disable_export is a
\* key of the dict ("true", "false") or not ("unset").
CreateSettings ==
    [expiration_time : {Null},
     max_access_count : {Null, 1},
     deadman_switch : {Null},
     disable_export : {"unset", "true", "false"}]

\* Mutant: media content is made view-only whatever the caller asked for.
StoredSecurityMediaWins(security_settings, is_media) ==
    [expiration_time |-> security_settings.expiration_time,
     max_access_count |-> security_settings.max_access_count,
     deadman_switch |-> security_settings.deadman_switch,
     disable_export |-> is_media \/ security_settings.disable_export = "true"]

\* create_secure_file, lines 145-147 and 162-167: the security block that
\* is stored.
StoredSecurity(security_settings, is_media) ==
    [expiration_time |-> security_settings.expiration_time,
     max_access_count |-> security_settings.max_access_count,
     deadman_switch |-> security_settings.deadman_switch,
     disable_export |-> IF security_settings.disable_export = "unset"
                        THEN is_media
                        ELSE security_settings.disable_export = "true"]

\* create_secure_file, lines 155-169: the metadata of the new entry.
CreatedMetadata(file_id, filename, password, security_settings, is_media, current_time) ==
    LET m == NewMetadata(file_id, password,
                         StoredSecurity(security_settings, is_media), current_time)
    IN  [k \in DOMAIN m \cup {"filename", "file_type"} |->
            IF k = "filename" THEN filename
            ELSE IF k = "file_type" THEN (IF is_media THEN "media" ELSE "document")
            ELSE m[k]]

\* create_secure_file
CreateSecureFile(p, filename, content, password, security_settings) ==
    /\ AtRest(p)
    /\ Fresh # {}
    /\ LET file_id == GenerateFileId
           is_media == IsMediaFile(filename, content)
       IN  /\ files' = [files EXCEPT ![file_id] =
                           CreatedMetadata(file_id, filename, password,
                                           security_settings, is_media, now)]
           /\ born' = [born EXCEPT ![file_id] = Used]
           /\ io' = Done("create_secure_file",
                         [st |-> "call", filename |-> filename, content |-> content,
                          security_settings |-> security_settings],
                         file_id)
    /\ UNCHANGED <<blacklist, now, pc, tgt, md, pwok, ret, sweepQ, out, streak,
                   okCount, destroyed, expAtGlob, dmsAtGlob, wasReset, keep, disk, faults, extVars>>

InitCreate ==
    /\ StoreOf(1, NoPolicy, {0})
    /\ keep = {}
    /\ IoRest

\* A call is made while uuid4 has an id left to give.
NextCreate ==
    \E p \in Callers :
        /\ AtRest(p)
        /\ Fresh # {}
        /\ \E filename \in Filenames, content \in Contents,
              security_settings \in CreateSettings :
               CreateSecureFile(p, filename, content, "pw1", security_settings)

SpecCreate == InitCreate /\ [][NextCreate]_vars


\* ------------------------------------------------ update_security_settings
\* The keys of a security_settings argument: the four policy fields and a
\* key the store does not know.
SettingKeys ==
    {"expiration_time", "max_access_count", "deadman_switch", "disable_export", "owner"}

\* A security_settings dict with the keys named and the values given.
SettingsOf(named, expiration_time, max_access_count, deadman_switch, disable_export) ==
    [k \in named |->
        CASE k = "expiration_time" -> expiration_time
          [] k = "max_access_count" -> max_access_count
          [] k = "deadman_switch" -> deadman_switch
          [] k = "disable_export" -> disable_export
          [] OTHER -> 1]

\* Mutant: the argument is merged into the stored block (dict.update).
UpdatedSecurityMerged(security, security_settings) ==
    [k \in DOMAIN security \cup DOMAIN security_settings |->
        IF k \in DOMAIN security_settings THEN security_settings[k] ELSE security[k]]

\* update_security_settings, lines 759-761: the stored block after the loop.
UpdatedSecurity(security, security_settings) ==
    [k \in DOMAIN security |->
        IF k \in DOMAIN security_settings THEN security_settings[k] ELSE security[k]]

\* update_security_settings
UpdateSecuritySettings(p, i, security_settings) ==
    /\ AtRest(p)
    /\ IF files[i] = NoFile
       THEN /\ io' = Done("update_security_settings", NoRec, "false")
            /\ UNCHANGED files
       ELSE IF files[i] = Wiped
       THEN /\ io' = Done("update_security_settings", NoRec, "decode_error")
            /\ UNCHANGED files
       ELSE /\ files' = [files EXCEPT ![i].security =
                            UpdatedSecurity(files[i].security, security_settings)]
            /\ io' = Done("update_security_settings", NoRec, "true")
    /\ UNCHANGED <<blacklist, now, pc, tgt, md, pwok, ret, sweepQ, out, born, streak,
                   okCount, destroyed, expAtGlob, dmsAtGlob, wasReset, keep, disk, faults, extVars>>

InitUpdate ==
    /\ StoreOf(1, NoPolicy, {0})
    /\ keep = {}
    /\ IoRest

\* The security_settings arguments of the calls.
UpdateSettings ==
    {SettingsOf(named, expiration_time, max_access_count, deadman_switch, disable_export) :
        named \in SUBSET SettingKeys,
        expiration_time \in {2}, max_access_count \in {2},
        deadman_switch \in {1}, disable_export \in {TRUE}}

\* Settings are updated between the accesses of the callers.
NextUpdate ==
    \/ \E p \in Callers, i \in Ids, password \in Passwords :
          Quiet(p) /\ AccessLoad(p, i, password)
    \/ \E p \in Callers : Quiet(p) /\ AccessWriteFail(p)
    \/ \E p \in Callers : Quiet(p) /\ AccessWriteOk(p)
    \/ \E p \in Procs : Quiet(p) /\ SdfRead(p)
    \/ \E p \in Procs : Quiet(p) /\ SdfWipe(p)
    \/ \E p \in Procs : Quiet(p) /\ SdfUnlink(p)
    \/ \E p \in Callers, i \in AllIds, security_settings \in UpdateSettings :
          Quiet(p) /\ UpdateSecuritySettings(p, i, security_settings)

SpecUpdate == InitUpdate /\ [][NextUpdate]_vars

\* The security_settings of the calls made between accesses and exports.
FrameSettings ==
    {SettingsOf(named, 2, 2, 1, TRUE) :
        named \in {{"max_access_count", "owner"}, {"expiration_time", "disable_export"}}}

\* Accesses, exports and updates of the settings, one operation at a time.
NextFrame ==
    \/ \E p \in Callers, i \in Ids, password \in Passwords :
          Quiet(p) /\ AccessLoad(p, i, password)
    \/ \E p \in Callers : Quiet(p) /\ AccessWriteFail(p)
    \/ \E p \in Callers : Quiet(p) /\ AccessWriteOk(p)
    \/ \E p \in Procs : Quiet(p) /\ SdfRead(p)
    \/ \E p \in Procs : Quiet(p) /\ SdfWipe(p)
    \/ \E p \in Procs : Quiet(p) /\ SdfUnlink(p)
    \/ \E p \in Callers, i \in AllIds, export_path \in Paths :
          Quiet(p) /\ ExportFile(p, i, export_path)
    \/ \E p \in Callers, i \in AllIds, password \in Passwords, export_path \in Paths :
          Quiet(p) /\ ExportPortable(p, i, password, export_path)
    \/ \E p \in Callers, i \in AllIds, security_settings \in FrameSettings :
          Quiet(p) /\ UpdateSecuritySettings(p, i, security_settings)

SpecFrame == InitUpdate /\ [][NextFrame]_vars

\* ---------------------------------------------------- EncryptionManager
\* A byte is modelled with 4 bits and a base64 digit with 3, so that 3
\* bytes make 4 digits as in base64.
Octets == 0..15
\* The "=" that fills the last group of digits.
PadChar == 8

\* The bits of a sequence of bytes, the most significant first.
BitsOfBytes(bytes) ==
    [k \in 1..(4 * Len(bytes)) |->
        LET b == bytes[((k - 1) \div 4) + 1]
            j == (k - 1) % 4
        IN  IF j = 0 THEN (b \div 8) % 2
            ELSE IF j = 1 THEN (b \div 4) % 2
            ELSE IF j = 2 THEN (b \div 2) % 2
            ELSE b % 2]

\* The bits of a sequence of base64 digits.
BitsOfDigits(digits) ==
    [k \in 1..(3 * Len(digits)) |->
        LET d == digits[((k - 1) \div 3) + 1]
            j == (k - 1) % 3
        IN  IF j = 0 THEN (d \div 4) % 2
            ELSE IF j = 1 THEN (d \div 2) % 2
            ELSE d % 2]

\* base64.b64encode: the bits in groups of one digit, the last group filled
\* with zero bits, and "=" up to a whole group of 4 digits.
B64Encode(bytes) ==
    LET bits == BitsOfBytes(bytes)
        fill == (3 - (Len(bits) % 3)) % 3
        padded == bits \o [k \in 1..fill |-> 0]
        digits == [g \in 1..(Len(padded) \div 3) |->
                      4 * padded[3 * g - 2] + 2 * padded[3 * g - 1] + padded[3 * g]]
        pad == (4 - (Len(digits) % 4)) % 4
    IN  digits \o [k \in 1..pad |-> PadChar]

\* base64.b64decode: the bits of the digits in groups of one byte; the
\* bits left over are dropped.
B64Decode(text) ==
    LET IsDigit(d) == d # PadChar
        bits == BitsOfDigits(SelectSeq(text, IsDigit))
    IN  [g \in 1..(Len(bits) \div 4) |->
            8 * bits[4 * g - 3] + 4 * bits[4 * g - 2] + 2 * bits[4 * g - 1] + bits[4 * g]]

\* derive_key: PBKDF2-HMAC-SHA256 of the password and the salt; two
\* passwords or two salts do not give one key.
DeriveKey(password, salt) == [password |-> password, salt |-> salt]

\* The key stream of AES in counter mode: a function of the key, the nonce
\* and the position.
KeyStream(key, nonce, k) ==
    ((IF key.password = "pw1" THEN 3 ELSE 11) + 5 * key.salt[1] + 7 * nonce[1] + k) % 16

\* AESGCM.encrypt: the data added to the key stream, and the tag, which
\* authenticates the key, the nonce and the ciphertext.
EncryptData(data, key, nonce) ==
    LET body == [k \in 1..Len(data) |-> (data[k] + KeyStream(key, nonce, k)) % 16]
    IN  [body |-> body, tag |-> <<key, nonce, body>>]

\* Mutant: the tag is not verified.
DecryptDataUnverified(ciphertext, nonce, key) ==
    [kind |-> "bytes",
     data |-> [k \in 1..Len(ciphertext.body) |->
                  (ciphertext.body[k] + 16 - KeyStream(key, nonce, k)) % 16]]

\* decrypt_data: AESGCM.decrypt raises InvalidTag when the tag does not
\* verify; every exception is raised again as ValueError.
DecryptData(ciphertext, nonce, key) ==
    IF ciphertext.tag = <<key, nonce, ciphertext.body>>
    THEN [kind |-> "bytes",
          data |-> [k \in 1..Len(ciphertext.body) |->
                       (ciphertext.body[k] + 16 - KeyStream(key, nonce, k)) % 16]]
    ELSE [kind |-> "ValueError", data |-> <<>>]

\* encrypt_file_content, with the salt and the nonce os.urandom gives.
EncryptFileContent(content, password, salt, nonce) ==
    LET key == DeriveKey(password, salt)
        encrypted_data == EncryptData(content, key, nonce)
    IN  [ciphertext |-> [body |-> B64Encode(encrypted_data.body),
                         tag |-> encrypted_data.tag],
         nonce |-> B64Encode(nonce),
         salt |-> B64Encode(salt)]

\* decrypt_file_content
DecryptFileContent(encrypted_content, password) ==
    LET ciphertext == [body |-> B64Decode(encrypted_content.ciphertext.body),
                       tag |-> encrypted_content.ciphertext.tag]
        nonce == B64Decode(encrypted_content.nonce)
        salt == B64Decode(encrypted_content.salt)
        key == DeriveKey(password, salt)
    IN  DecryptData(ciphertext, nonce, key)

\* The byte strings that are sealed: the empty one and those of up to
\* MaxPlain bytes.
Plaintexts == UNION {[1..n -> {0, 7, 15}] : n \in 0..MaxPlain}

\* What os.urandom gives for a salt and for a nonce.
Salts == {<<1>>, <<2, 14>>}
Nonces == {<<0>>, <<9, 6>>}

\* encrypt_file_content(content, password)
SealCall ==
    /\ seal.pc = "given"
    /\ \E salt \in Salts, nonce \in Nonces :
          seal' = [seal EXCEPT !.pc = "sealed",
                               !.encrypted_content =
                                   EncryptFileContent(seal.content, seal.password, salt, nonce)]
    /\ UNCHANGED <<storeVars, sd, scan, val, dup>>

\* decrypt_file_content(encrypted_content, tried)
UnsealCall ==
    /\ seal.pc = "sealed"
    /\ seal' = [seal EXCEPT !.pc = "opened",
                            !.result = DecryptFileContent(seal.encrypted_content, seal.tried)]
    /\ UNCHANGED <<storeVars, sd, scan, val, dup>>

InitSeal ==
    /\ StoreOf(0, NoPolicy, {0})
    /\ keep = {}
    /\ disk = [path \in Paths |-> NoFile]
    /\ io = NoIo
    /\ faults = {}
    /\ sd = NoSd
    /\ scan = NoScan
    /\ val = NoVal
    /\ dup = NoDup
    /\ \E content \in Plaintexts, password \in Passwords, tried \in Passwords :
          seal = [pc |-> "given", content |-> content, password |-> password, tried |-> tried,
                  encrypted_content |-> [ciphertext |-> [body |-> <<>>, tag |-> <<>>],
                                         nonce |-> <<>>, salt |-> <<>>],
                  result |-> [kind |-> "none", data |-> <<>>]]

NextSeal == SealCall \/ UnsealCall

SpecSeal == InitSeal /\ [][NextSeal]_vars

\* ------------------------------------- the search for stray duplicates
\* The devices get_available_devices reports and the types it gives them.
Devices == 1..MaxDevices

DeviceTypes == {"Removable", "Fixed", "Network", "CD-ROM"}

ContentHashes == {"c1", "c2"}

\* What a .bar file under a searched directory holds: a JSON object with
\* or without a content_hash, JSON that is not an object, or bytes that do
\* not parse; NoBar where the device has no .bar file.
NoBar == [kind |-> "none", content_hash |-> ""]

BarContents ==
    {NoBar, [kind |-> "text", content_hash |-> ""], [kind |-> "array", content_hash |-> ""]}
    \cup {[kind |-> "object", content_hash |-> h] : h \in ContentHashes \cup {""}}

\* Mutant: only network drives are left out of the search.
SkippedNetworkOnly(type) == type = "Network"

\* Line 1055: the device types the search leaves out.
Skipped(type) == type \in {"Network", "CD-ROM"}

\* Line 1085: file_hash and file_hash == content_hash.
HashMatches(data, content_hash) ==
    /\ data.kind = "object"
    /\ data.content_hash # ""
    /\ data.content_hash = content_hash

\* _secure_delete_file, lines 437-452: with a content_hash in the metadata
\* the search thread is created and started, and the caller goes on; an
\* exception from the start is logged.
DupStart ==
    /\ dup.caller = "read"
    /\ \/ /\ dup.content_hash # ""
          /\ dup' = [dup EXCEPT !.caller = "erase", !.thread = "devices"]
       \/ dup' = [dup EXCEPT !.caller = "erase"]
    /\ UNCHANGED <<storeVars, sd, scan, val, seal>>

\* _secure_delete_file, lines 458-474: the metadata file is erased and True
\* is returned; nothing here reads the search thread.
DupCallerReturn ==
    /\ dup.caller = "erase"
    /\ dup' = [dup EXCEPT !.caller = "returned", !.metadata = FALSE, !.result = TRUE]
    /\ UNCHANGED <<storeVars, sd, scan, val, seal>>

\* Lines 1033-1042: the devices are listed; an exception from the listing
\* ends the search with 0.
DupDevices ==
    /\ dup.thread = "devices"
    /\ \/ dup' = [dup EXCEPT !.thread = "loop", !.left = Devices]
       \/ dup' = [dup EXCEPT !.thread = "done"]
    /\ UNCHANGED <<storeVars, sd, scan, val, seal>>

\* Lines 1044-1100, one device of the loop: a skipped type is passed over;
\* otherwise its .bar file is opened (which may fail), parsed, compared and
\* on a match erased, unless secure_delete_file returns False.  A parse
\* error, a value that is no object and an unreadable file are all caught.
DupDevice(d) ==
    /\ dup.thread = "loop"
    /\ d \in dup.left
    /\ \A e \in dup.left : d <= e
    /\ IF Skipped(dup.types[d]) \/ dup.bar[d] = NoBar
       THEN dup' = [dup EXCEPT !.left = @ \ {d}]
       ELSE \/ dup' = [dup EXCEPT !.left = @ \ {d}]
            \/ /\ HashMatches(dup.bar[d], dup.content_hash)
               /\ dup' = [dup EXCEPT !.left = @ \ {d}, !.opened = @ \cup {d},
                                     !.bar[d] = NoBar, !.deleted_count = @ + 1]
            \/ dup' = [dup EXCEPT !.left = @ \ {d}, !.opened = @ \cup {d}]
    /\ UNCHANGED <<storeVars, sd, scan, val, seal>>

\* Lines 1046-1048 and 1102-1106: the loop ends when the devices are
\* through or the time budget is spent, and the count is returned.
DupReturn ==
    /\ dup.thread = "loop"
    /\ dup' = [dup EXCEPT !.thread = "done", !.left = {}]
    /\ UNCHANGED <<storeVars, sd, scan, val, seal>>

\* A destruction has read the metadata of the entry, with or without a
\* content_hash; the devices hold .bar files of every kind.
InitDup ==
    /\ StoreOf(0, NoPolicy, {0})
    /\ keep = {}
    /\ disk = [path \in Paths |-> NoFile]
    /\ io = NoIo
    /\ faults = {}
    /\ sd = NoSd
    /\ scan = NoScan
    /\ val = NoVal
    /\ seal = NoSeal
    /\ \E content_hash \in {"c1", ""}, types \in [Devices -> DeviceTypes],
          bar \in [Devices -> BarContents] :
          dup = [caller |-> "read", metadata |-> TRUE, result |-> FALSE,
                 content_hash |-> content_hash, thread |-> "none", left |-> {},
                 types |-> types, bar |-> bar, born |-> bar, opened |-> {},
                 deleted_count |-> 0]

NextDup ==
    \/ DupStart
    \/ DupCallerReturn
    \/ DupDevices
    \/ \E d \in Devices : DupDevice(d)
    \/ DupReturn

SpecDup == InitDup /\ [][NextDup]_vars

\* ------------------------------------------------------------- claims
\* The policy constraints as the specification states them, with the days
\* since the last access counted in whole days.
Exhausted(m) ==
    m.security.max_access_count # Null /\ m.access_count >= m.security.max_access_count

DeadmanExceeded(m, t) ==
    /\ m.security.deadman_switch # Null
    /\ WholeDays(t - m.last_accessed) > m.security.deadman_switch

Violated(m, t) == Expired(m, t) \/ Exhausted(m) \/ DeadmanExceeded(m, t)

\* The blacklist holds the record of entry i: under its content_hash when it
\* has one, under the digest of its envelope otherwise.
Blacklisted(i) ==
    IF born[i].content_hash # <<>>
    THEN IsBlacklisted(blacklist, born[i].content_hash)
    ELSE IsBlacklisted(blacklist, EnvelopeDigest(born[i].encryption))

C2_SuccessResetsFailedAttempts ==
    [][/\ \A p \in Callers :
            pc[p] = "acc_write_ok" /\ pc'[p] = "idle"
                => /\ IsJson(files'[tgt[p]])
                   /\ files'[tgt[p]].failed_password_attempts = 0
       /\ out'.kind = "permanently_deleted"
            => streak'[out'.id] >= MaxFailedAttempts]_vars

\* wrong, right, wrong, wrong: the entry is present with one attempt left.
C2_Witness ==
    \E i \in wasReset :
        /\ out = [id |-> i, kind |-> "wrong_password", rem |-> 1]
        /\ streak[i] = 2
        /\ IsJson(files[i])
        /\ files[i].failed_password_attempts = 2

\* C3: in sequential runs on an entry with max_access_count = N, a call with
\* the right password on the entry, not expired and not dead-man triggered,
\* with fewer than N accesses returns the content; no more than N calls ever
\* return it; and once N calls have, every later call ends without the
\* content and with the entry absent.
C3_MaxAccessCount ==
    [][/\ \A i \in Ids :
            born[i].security.max_access_count # Null
                => /\ okCount'[i] <= born[i].security.max_access_count
                   /\ (/\ okCount'[i] >= born[i].security.max_access_count
                       /\ out'.id = i
                       /\ out'.kind # "content")
                        => files'[i] = NoFile
       /\ \A p \in Callers, i \in Ids :
            (/\ pc[p] = "idle" /\ tgt'[p] = i /\ pwok'[p]
             /\ IsJson(files[i])
             /\ born[i].security.max_access_count # Null
             /\ files[i].access_count < born[i].security.max_access_count
             /\ ~Expired(files[i], now)
             /\ ~DeadmanExceeded(files[i], now))
                => pc'[p] = "acc_write_ok"
       /\ \A p \in Callers :
            pc[p] = "acc_write_ok" /\ pc'[p] = "idle" => out'.kind = "content"]_vars

C3_Witness ==
    \E i \in Ids :
        /\ born[i].security.max_access_count = 2
        /\ okCount[i] = 2
        /\ out = [id |-> i, kind |-> "policy_error", rem |-> 0]
        /\ files[i] = NoFile

\* C4: no two threads are at the same time between the read and the final
\* write or delete of a read-modify-write sequence on the same entry.
InSequence(p) ==
    pc[p] \in {"acc_write_ok", "acc_write_fail", "sdf_read", "sdf_wipe", "sdf_unlink"}

C4_MutualExclusion ==
    \A p, q \in Procs :
        p # q /\ InSequence(p) /\ InSequence(q) => tgt[p] # tgt[q]

\* C5: once forensic destruction has removed an entry's metadata file, no
\* step of any thread makes a metadata file with that id exist again.
C5_DestroyedIsTerminal ==
    [][\A i \in Ids :
          i \in destroyed /\ files[i] = NoFile => files'[i] = NoFile]_vars

\* C6: access_file on an entry with a violated constraint takes the policy
\* path whatever the password: no unseal is attempted, and the call ends
\* with the policy error and the entry destroyed.
C6_PolicyBeforeUnseal ==
    [][\A p \in Callers :
          /\ \A i \in Ids :
                (/\ pc[p] = "idle" /\ tgt'[p] = i
                 /\ IsJson(files[i]) /\ Violated(files[i], now))
                    => pc'[p] = "sdf_read" /\ ret'[p] = "policy"
          /\ ret[p] = "policy" /\ pc'[p] = "idle"
                => /\ out' = [id |-> tgt[p], kind |-> "policy_error", rem |-> 0]
                   /\ files'[tgt[p]] = NoFile]_vars

\* A call with a wrong password on a violating entry is about to unlink it.
C6_Witness ==
    \E p \in Callers :
        /\ pc[p] = "sdf_unlink"
        /\ ret[p] = "policy"
        /\ ~pwok[p]
        /\ files[tgt[p]] = Wiped
        /\ Blacklisted(tgt[p])

\* C7: in sequential runs, no access_file call on an expired entry reaches
\* the point of returning its content, and when a sweep iteration ends every
\* entry that was expired when it started is absent.
C7_ExpiredNeverReturnedAndSwept ==
    /\ \A p \in Callers : pc[p] = "acc_write_ok" => ~Expired(md[p], now)
    /\ pc[Sweeper] = "sw_sleep" => \A i \in expAtGlob : files[i] = NoFile

\* A sweep iteration has removed an expired entry no call was ever made on.
C7_Witness ==
    /\ pc[Sweeper] = "sw_sleep"
    /\ expAtGlob # {}
    /\ \A i \in expAtGlob : files[i] = NoFile /\ i \in destroyed
    /\ out = NoOut

\* C8: when a sweep iteration ends, every entry whose time since the last
\* access was longer than its dead-man period when the iteration started,
\* and that was not accessed since, is absent.
C8_DeadmanSwept ==
    pc[Sweeper] = "sw_sleep" => \A i \in dmsAtGlob : files[i] = NoFile

\* C9: _check_security_constraints reports a violation exactly when the
\* entry is expired, exhausted or dead-man triggered (whole days), a null
\* field imposing nothing; and access_file's policy check and the sweep
\* start a destruction only of an entry for which one of the three holds.
C9_ViolationExactly ==
    /\ \A i \in Ids :
          IsJson(files[i])
            => (CheckSecurityConstraints(files[i], now) <=> ~Violated(files[i], now))
    /\ \A p \in Procs :
          (pc[p] = "sdf_read" /\ ret[p] \in {"policy", "sweep"} /\ IsJson(files[tgt[p]]))
            => Violated(files[tgt[p]], now)

\* The sweep destroys an entry whose only constraint is the dead-man switch.
C9_Witness ==
    /\ pc[Sweeper] = "sdf_read"
    /\ ret[Sweeper] = "sweep"
    /\ IsJson(files[tgt[Sweeper]])
    /\ files[tgt[Sweeper]].security.expiration_time = Null
    /\ files[tgt[Sweeper]].security.max_access_count = Null
    /\ DeadmanExceeded(files[tgt[Sweeper]], now)

\* C10: the access_file call that brings access_count up to
\* max_access_count returns the content and starts a destruction thread, and
\* under fair scheduling the entry is then eventually absent and
\* blacklisted, no further call or sweep being needed.
TaskPending(i) == \E t \in Tasks : pc[t] = "task_start" /\ tgt[t] = i

C10_TriggeringAccessThenDestroyed ==
    /\ [][\A t \in Tasks :
            pc[t] = "idle" /\ pc'[t] = "task_start"
                => out' = [id |-> tgt'[t], kind |-> "content", rem |-> 0]]_vars
    /\ \A i \in Ids : TaskPending(i) ~> (files[i] = NoFile /\ Blacklisted(i))

\* The destruction thread is about to unlink the entry whose content the
\* last call returned.
C10_Witness ==
    \E t \in Tasks :
        /\ pc[t] = "sdf_unlink"
        /\ ret[t] = "task"
        /\ files[tgt[t]] = Wiped
        /\ Blacklisted(tgt[t])
        /\ out = [id |-> tgt[t], kind |-> "content", rem |-> 0]

\* ------------------------------------------- claims on export and import
\* The portable records a caller can hand to import_portable_file whose
\* content_hash is in the blacklist.
BlacklistedInputs ==
    {r \in ImportInputs :
        Signed(r) /\ r.content_hash # <<>> /\ IsBlacklisted(blacklist, r.content_hash)}

ImportStep(op) == io' # io /\ io'.op = op

\* C11: import_portable_file of a record whose content_hash is in the
\* blacklist ends as blacklisted for every password, the right one
\* included (the check precedes the unseal attempt), and an
\* import_portable_file call that fails creates no entry.
C11_BlacklistedImportRejected ==
    /\ [](\A r \in BlacklistedInputs, password \in Passwords, host \in Hosts :
            ImportResult(r, password, host) = "blacklisted")
    /\ [][ImportStep("import_portable_file") /\ io'.result = "blacklisted"
            => files' = files]_vars

\* An import_portable_file call has just been refused as blacklisted, and a
\* blacklisted record that the right password unseals is at hand.
C11_Witness ==
    /\ io.op = "import_portable_file"
    /\ io.result = "blacklisted"
    /\ \E r \in BlacklistedInputs : DecryptOk(r.encryption, "pw1")

\* The entries the store was constructed on that forensic destruction has
\* removed and that no import has made again under the same id: a record
\* exported from such an entry was exported before its destruction.
DestroyedOriginals ==
    {i \in Ids : i \in destroyed /\ IsJson(born[i]) /\ files[i] = NoFile}

\* The portable records at the export paths, as export_portable_file wrote
\* them, that were exported from a destroyed entry.
ExportedFromDestroyed ==
    {r \in {disk[path] : path \in Paths} :
        Signed(r) /\ r.exported_from \in DestroyedOriginals}

\* C12: after an entry has been forensically destroyed, no
\* import_portable_file call on a portable record exported from it before
\* its destruction succeeds, whether create_secure_file or an import made
\* the entry.
C12_ExportedBeforeDestructionRejected ==
    [][ImportStep("import_portable_file") /\ io'.result = "imported"
            => io'.rec \notin ExportedFromDestroyed]_vars

ImportOps == {"import_portable_file", "import_found_file", "import_file"}

\* C13: no import_portable_file, import_found_file or import_file call
\* creates an entry whose content_hash is in the blacklist at that time.
C13_NoBlacklistedEntryAdmitted ==
    [][\A op \in ImportOps :
          ImportStep(op) /\ io'.result = "imported"
              => \A i \in AllIds :
                    files'[i] # files[i] /\ files'[i].content_hash # <<>>
                        => ~IsBlacklisted(blacklist, files'[i].content_hash)]_vars

\* C14: the blacklist only grows: no step of an access, a destruction, a
\* delete, an export or an import removes a record from it.
C14_BlacklistOnlyGrows == [][blacklist \subseteq blacklist']_vars

\* Two destructions have filed two records, and an import has been made
\* since the first record was filed.
C14_Witness ==
    /\ Cardinality(blacklist) >= 2
    /\ born["n1"] = Used

\* An entry whose policy has disable_export = true.
ViewOnly(i) == IsJson(files[i]) /\ ExportDisabled(files[i])

\* C15: export_file and export_portable_file on an entry with
\* disable_export = true end as refused for every password (the restriction
\* is read before the unseal attempt), write nothing to the export path and
\* leave the entries unchanged.
C15_ExportDisabledRefused ==
    [][\A p \in Callers, i \in AllIds, password \in Passwords, export_path \in Paths :
          ViewOnly(i) /\ (ExportFile(p, i, export_path)
                            \/ ExportPortable(p, i, password, export_path))
              => io'.result = "export_refused" /\ disk' = disk /\ files' = files]_vars

\* An export_portable_file call has just been refused, the store holding a
\* view-only entry whose password would have unsealed it.
C15_Witness ==
    /\ io.op = "export_portable_file"
    /\ io.result = "export_refused"
    /\ \E i \in AllIds : ViewOnly(i) /\ DecryptOk(files[i].encryption, "pw1")

\* The portable records at the export paths, as export_portable_file wrote
\* them from entry i, that import_portable_file accepts with the password
\* of the entry.
Importable(i) ==
    {r \in {disk[path] : path \in Paths} :
        /\ Signed(r)
        /\ r.exported_from = i
        /\ \A host \in Hosts : ImportResult(r, "pw1", host) = "imported"}

\* C16: delete_file on an existing id removes the metadata file of that
\* entry and nothing else: the other entries, the blacklist and the exported
\* files are unchanged, and every portable record exported from the entry
\* that could be imported before the call can be imported after it.
C16_DeleteRemovesOnlyTheEntry ==
    [][\A p \in Callers, i \in AllIds :
          DeleteFile(p, i) /\ files[i] # NoFile
              => /\ files' = [files EXCEPT ![i] = NoFile]
                 /\ blacklist' = blacklist
                 /\ disk' = disk
                 /\ io'.result = "deleted"
                 /\ Importable(i) \subseteq Importable(i)']_vars

\* delete_file has just removed an entry of which an importable portable
\* record exists.
C16_Witness ==
    /\ io.op = "delete_file"
    /\ io.result = "deleted"
    /\ \E i \in AllIds : files[i] = NoFile /\ Importable(i) # {}

\* The record r with the hardware keys taken out of its envelope.
Unbound(r) ==
    [r EXCEPT !.encryption.hardware_id_hash = NoHw, !.encryption.hardware_bound = "absent"]

\* The signed records at hand whose envelope carries a hardware_id_hash.
BoundInputs == {r \in ImportInputs : Signed(r) /\ r.encryption.hardware_id_hash # NoHw}

\* C17: for a signed record whose envelope carries a hardware_id_hash,
\* import_portable_file ends as it does for the same record without the
\* hardware keys, on every host; when the record is not blacklisted it
\* succeeds with a password that unseals the envelope and fails as a wrong
\* password with any other.
C17_HardwareBindingIgnored ==
    \A r \in BoundInputs, password \in Passwords, host \in Hosts :
        /\ ImportResult(r, password, host) = ImportResult(Unbound(r), password, host)
        /\ r \notin BlacklistedInputs
              => ImportResult(r, password, host) =
                    IF DecryptOk(r.encryption, password) THEN "imported"
                    ELSE "wrong_password"

\* import_portable_file has just made an entry from a record bound to
\* another host than the importing one.
C17_Witness ==
    /\ io.op = "import_portable_file"
    /\ io.result = "imported"
    /\ io.rec.encryption.hardware_id_hash \notin Hosts \cup {NoHw}
    /\ \E i \in NewIds : IsJson(files[i]) /\ files[i].encryption.hardware_id_hash = NoHw

\* C18: a successful import_portable_file creates exactly one entry, under
\* an id no entry had before, with the creation_time, access_count and
\* failed_password_attempts of the record and the time of the import as
\* last_accessed; every other entry is unchanged.
C18_ImportPreservesCounters ==
    [][ImportStep("import_portable_file") /\ io'.result = "imported"
          => \E file_id \in AllIds :
                /\ files[file_id] = NoFile
                /\ born[file_id] = NoFile
                /\ \A i \in AllIds \ {file_id} : files'[i] = files[i]
                /\ IsJson(files'[file_id])
                /\ files'[file_id].file_id = file_id
                /\ files'[file_id].creation_time = io'.rec.creation_time
                /\ files'[file_id].access_count = io'.rec.access_count
                /\ files'[file_id].failed_password_attempts = io'.rec.failed_password_attempts
                /\ files'[file_id].last_accessed = now]_vars

\* import_portable_file has just made an entry from a record that was
\* created earlier and carries a nonzero count of failed attempts.
C18_Witness ==
    /\ io.op = "import_portable_file"
    /\ io.result = "imported"
    /\ io.rec.failed_password_attempts > 0
    /\ io.rec.creation_time < now
    /\ \E i \in NewIds :
          /\ IsJson(files[i])
          /\ files[i].failed_password_attempts = io.rec.failed_password_attempts
          /\ files[i].last_accessed = now

\* The files at hand that parse and have no signature marker, or a false
\* one.
UnsignedInputs == {r \in ImportInputs : r # NoFile /\ ~Signed(r)}

ImportFailures == {"unreadable", "bad_signature", "blacklisted", "wrong_password"}

\* C19: import_portable_file rejects every record whose bar_portable_file
\* marker is missing or false, whatever the password, and an
\* import_portable_file call that fails leaves the entries and the
\* blacklist as they were.
C19_UnsignedRejectedAndFailuresInert ==
    /\ [](\A r \in UnsignedInputs, password \in Passwords, host \in Hosts :
            ImportResult(r, password, host) = "bad_signature")
    /\ [][ImportStep("import_portable_file") /\ io'.result \in ImportFailures
            => files' = files /\ blacklist' = blacklist]_vars

\* import_portable_file has just rejected a record for its signature, a
\* record with a false marker that the right password unseals being at
\* hand.
C19_Witness ==
    /\ io.op = "import_portable_file"
    /\ io.result = "bad_signature"
    /\ \E r \in UnsignedInputs :
          r.st = "portable" /\ DecryptOk(r.encryption, "pw1") /\ r \notin BlacklistedInputs

\* ------------------------------------- claims on _secure_delete_file
\* C20: whatever auxiliary steps of _secure_delete_file fail, a call on an
\* entry whose metadata file exists goes on to the erasure of that file,
\* and when the call returns the file is absent.
C20_AuxiliaryFailuresDoNotStopErasure ==
    /\ [][\A p \in Procs :
            /\ pc[p] \in {"sdf_read", "task_start"}
            /\ pc'[p] # pc[p]
            /\ files[tgt[p]] # NoFile
            => pc'[p] = "sdf_wipe" /\ tgt'[p] = tgt[p]]_vars
    /\ [][\A p \in Procs :
            pc[p] \in {"sdf_wipe", "sdf_unlink"} /\ pc'[p] \in RestPcs
                => files'[tgt[p]] = NoFile]_vars

\* Every auxiliary step fails, the blacklist insertion included, and an
\* entry has been erased all the same.
C20_Witness ==
    /\ faults = AuxSteps
    /\ destroyed # {}
    /\ blacklist = {}
    /\ \A i \in destroyed : files[i] = NoFile

\* ---------------------------------------- claims on secure_delete_file
\* C21: when the file cannot be opened for writing, secure_delete_file
\* still removes it by an ordinary unlink, and whenever
\* _secure_delete_file has returned True the metadata file no longer
\* exists.
C21_FallbackUnlink ==
    /\ sd.pc \in {"returned", "sdf_returned"} /\ sd.fault = "open" => ~sd.exists
    /\ sd.pc = "sdf_returned" /\ sd.sdf_result = "true" => ~sd.exists

\* C22: in secure_delete_file every chunk written in pass k carries the
\* pattern of pass k (zeros, ones, then random) and is written only when
\* the k passes before it are synced; a pass is synced only when the whole
\* file length holds its pattern; the truncation happens only when all
\* passes are synced, and the unlink only when the truncation is synced.
C22_PassesThenTruncateThenUnlink ==
    /\ [][sd'.pc # "none" /\ sd.pc # "none" /\ sd'.bytes # sd.bytes /\ ~sd'.truncated
            => /\ sd.synced_passes = sd.pass_num
               /\ sd.bytes_written = 0 => sd.durable
               /\ \A k \in DOMAIN sd.bytes :
                     sd'.bytes[k] # sd.bytes[k]
                         => sd'.bytes[k] = (CASE sd.pass_num = 0 -> "zeros"
                                              [] sd.pass_num = 1 -> "ones"
                                              [] OTHER -> "random")]_vars
    /\ [][sd'.pc # "none" /\ sd.pc # "none" /\ sd'.synced_passes # sd.synced_passes
            => /\ sd'.synced_passes = sd.synced_passes + 1
               /\ sd'.durable
               /\ Len(sd.bytes) = sd.file_size
               /\ \A k \in DOMAIN sd.bytes :
                     sd.bytes[k] = (CASE sd.synced_passes = 0 -> "zeros"
                                      [] sd.synced_passes = 1 -> "ones"
                                      [] OTHER -> "random")]_vars
    /\ [][sd'.pc # "none" /\ sd.pc # "none" /\ sd'.truncated /\ ~sd.truncated
            => sd.synced_passes = sd.passes /\ sd.durable /\ sd'.bytes = <<>>]_vars
    /\ [][sd'.pc # "none" /\ sd.pc # "none" /\ sd.exists /\ ~sd'.exists
            => sd.truncated /\ sd.durable /\ sd.bytes = <<>>]_vars

\* A call with three passes on a file of more than one chunk has unlinked
\* the file.
C22_Witness ==
    /\ sd.pc = "returned"
    /\ sd.result = "true"
    /\ sd.passes = 3
    /\ sd.synced_passes = 3
    /\ sd.file_size > ChunkBytes
    /\ ~sd.exists

\* C23: whenever secure_delete_file has returned True the path no longer
\* exists, and the file was of zero length when it was unlinked.
C23_SuccessMeansGoneAndEmpty ==
    sd.pc \in {"returned", "sdf_returned"} /\ sd.result = "true"
        => ~sd.exists /\ sd.size_at_unlink = 0

\* secure_delete_file(path, 3) has returned True on a file that held data.
C23_Witness ==
    /\ sd.pc = "returned"
    /\ sd.result = "true"
    /\ sd.passes = DefaultPasses
    /\ sd.file_size > 0
    /\ sd.size_at_unlink = 0

\* ------------------------------------------------- claims on the scanner
\* C24: at most one scan thread is alive at any time, whatever the
\* interleaving of scan_device, scan_removable_devices and stop_scan calls
\* and of the scan threads.
C24_AtMostOneScan == Cardinality(Alive) <= 1

\* C25: once stop_scan has been called on a running scan, the scan thread
\* processes no file beyond the one it may be at.
C25_StopObservedAtNextFile ==
    \A t \in ScanThreads : scan.thr[t].after_stop <= 1

\* C26: for every record _validate_bar_file accepts, integrity_score is
\* 100, less 10 for each of creation_time, content_hash and security that
\* is missing, less 10 if the version is absent; it is never below 60 or
\* above 100.
C26_IntegrityScore ==
    val.pc = "returned" /\ val.result.accepted
        => LET data == val.data
               missing == Cardinality({field \in OptionalFields : data[field] = "absent"})
           IN  /\ val.result.integrity_score =
                     100 - 10 * missing - (IF data.version = "absent" THEN 10 ELSE 0)
               /\ val.result.integrity_score >= 60
               /\ val.result.integrity_score <= 100

\* ------------------------------------------- claims on create_secure_file
\* The entry a create_secure_file call has just made.
Created(i) == io' # io /\ io'.op = "create_secure_file" /\ io'.result = i

\* A payload of text only, under a name without a media extension.
PlainText(call) ==
    /\ LowerExt(call.filename) \notin MediaExtensions
    /\ \A k \in DOMAIN call.content : call.content[k] = "t"

\* A payload that begins with the JPEG signature.
JpegPayload(call) ==
    /\ Len(call.content) >= 3
    /\ SubSeq(call.content, 1, 3) = <<"ff", "d8", "ff">>

PolicyFields == {"expiration_time", "max_access_count", "deadman_switch", "disable_export"}

\* C28: update_security_settings changes only the recognized policy fields
\* named in its argument: unrecognized keys add nothing to the stored
\* policy, policy fields not named keep their values, and the entry's
\* access_count, last_accessed, failed_password_attempts and envelope are
\* unchanged.
C28_UpdateChangesOnlyNamedPolicyFields ==
    [][\A p \in Callers, i \in AllIds, security_settings \in UpdateSettings :
          UpdateSecuritySettings(p, i, security_settings) /\ IsJson(files[i]) =>
              /\ IsJson(files'[i])
              /\ DOMAIN files'[i].security = PolicyFields
              /\ \A k \in PolicyFields :
                    files'[i].security[k] =
                        IF k \in DOMAIN security_settings THEN security_settings[k]
                        ELSE files[i].security[k]
              /\ files'[i].access_count = files[i].access_count
              /\ files'[i].last_accessed = files[i].last_accessed
              /\ files'[i].failed_password_attempts = files[i].failed_password_attempts
              /\ files'[i].encryption = files[i].encryption
              /\ \A j \in AllIds \ {i} : files'[j] = files[j]]_vars

\* The limit of an entry that has been accessed, with failed attempts
\* counted since, was raised by an update and its other fields were kept.
C28_Witness ==
    /\ io.op = "update_security_settings"
    /\ io.result = "true"
    /\ IsJson(files["f1"])
    /\ files["f1"].access_count = 1
    /\ files["f1"].last_accessed = 1
    /\ files["f1"].failed_password_attempts = 1
    /\ born["f1"].security.max_access_count = Null
    /\ files["f1"].security.max_access_count = 2
    /\ files["f1"].security.expiration_time = Null
    /\ files["f1"].security.disable_export = TRUE

\* ------------------------------------------------------------ claims on ids
\* C29: ids are unique for the lifetime of the store: the id an import
\* gives to the entry it makes is not the id of an entry that exists, nor of
\* one that existed earlier and was deleted or destroyed, and an import
\* does not overwrite the record of an existing entry.
C29_IdsNeverReused ==
    [][\A i \in AllIds :
          /\ \E op \in ImportOps : ImportStep(op)
          /\ io'.result = "imported"
          /\ files'[i] # files[i]
          => /\ files[i] = NoFile
             /\ born[i] = NoFile]_vars

\* ------------------------------------------------ claims on the counters
\* The access_file call of p writes the record of entry i after the
\* password was verified.
SuccessfulAccess(p, i) == pc[p] = "acc_write_ok" /\ tgt[p] = i /\ pc'[p] # pc[p]

\* C30: for an existing entry, access_count and last_accessed change only
\* through a successful access_file, which increases access_count by
\* exactly 1 and sets last_accessed to the access time; a failed
\* access_file, export_file, export_portable_file and
\* update_security_settings leave both unchanged, and access_count never
\* decreases.
C30_CountersChangeOnlyOnSuccessfulAccess ==
    [][\A i \in Ids : IsJson(files[i]) /\ IsJson(files'[i]) =>
          /\ files'[i].access_count >= files[i].access_count
          /\ IF \E p \in Callers : SuccessfulAccess(p, i)
             THEN /\ files[i].access_count <= MaxCount
                      => files'[i].access_count = files[i].access_count + 1
                  /\ files'[i].last_accessed = now
             ELSE /\ files'[i].access_count = files[i].access_count
                  /\ files'[i].last_accessed = files[i].last_accessed]_vars

\* An entry that was accessed twice, later than it was made, after a wrong
\* password, an export and an update of its settings.
C30_Witness ==
    /\ IsJson(files["f1"])
    /\ files["f1"].access_count = 2
    /\ files["f1"].last_accessed = 1
    /\ born["f1"].last_accessed = 0
    /\ files["f1"].security.disable_export = TRUE
    /\ disk["e1"].st = "portable"
    /\ disk["e1"].access_count = 1
    /\ disk["e1"].failed_password_attempts = 1

\* ------------------------------------------- claims on wrong passwords
\* The access_file call of p ends its wrong-password path on entry i.
WrongPasswordWrite(p, i) == pc[p] = "acc_write_fail" /\ tgt[p] = i /\ pc'[p] # pc[p]

\* C31: on a wrong password access_file persists the incremented
\* failed_password_attempts before failing: the k-th consecutive failure
\* with k < 3 reports 3 - k remaining attempts and leaves the entry present,
\* and the 3rd ends in the permanent deletion, an outcome that is neither
\* the wrong-password error nor the policy error.
C31_WrongPasswordPersistedAndReported ==
    [][/\ \A p \in Callers, i \in Ids : WrongPasswordWrite(p, i) =>
             LET k == IF files[i].failed_password_attempts = Null THEN 1
                      ELSE files[i].failed_password_attempts + 1
             IN  /\ IsJson(files[i]) /\ IsJson(files'[i])
                 /\ files'[i].failed_password_attempts = k
                 /\ k < MaxFailedAttempts =>
                       /\ out' = [id |-> i, kind |-> "wrong_password",
                                  rem |-> MaxFailedAttempts - k]
                       /\ streak'[i] = k
                       /\ pc'[p] = "idle"
                 /\ k >= MaxFailedAttempts =>
                       /\ k = MaxFailedAttempts
                       /\ pc'[p] = "sdf_read" /\ ret'[p] = "permdel"
       /\ \A p \in Callers :
             ret[p] = "permdel" /\ pc'[p] = "idle" /\ pc[p] # "idle" =>
                /\ out' = [id |-> tgt[p], kind |-> "permanently_deleted", rem |-> 0]
                /\ out'.kind \notin {"wrong_password", "policy_error"}
                /\ streak'[tgt[p]] = MaxFailedAttempts
                /\ files'[tgt[p]] = NoFile]_vars

\* The second consecutive failure left the entry with one attempt.
C31_Witness ==
    \E i \in Ids :
        /\ out = [id |-> i, kind |-> "wrong_password", rem |-> 1]
        /\ streak[i] = 2
        /\ IsJson(files[i])
        /\ files[i].failed_password_attempts = 2
        /\ i \notin wasReset

\* --------------------------------------------- claims on the envelope
\* C32: for every byte string x, the empty one included, and passwords p
\* and q, decrypt_file_content(encrypt_file_content(x, p), q) returns
\* exactly x when q = p, and when q # p it fails with an error and returns
\* no plaintext.
C32_SealUnsealRoundTrip ==
    seal.pc = "opened" =>
        IF seal.tried = seal.password
        THEN seal.result = [kind |-> "bytes", data |-> seal.content]
        ELSE seal.result = [kind |-> "ValueError", data |-> <<>>]

\* Two bytes were sealed under a two-byte salt and nonce and returned by
\* the right password.
C32_Witness ==
    /\ seal.pc = "opened"
    /\ seal.tried = seal.password
    /\ seal.content = <<7, 15>>
    /\ seal.encrypted_content.ciphertext.body # B64Encode(seal.content)
    /\ Len(seal.encrypted_content.salt) = 4
    /\ seal.result.data = <<7, 15>>

\* ------------------------------------------- claims on concurrent accesses
\* C33: under any interleaving of concurrent access_file calls with the
\* correct password on an entry with max_access_count = N, the number of
\* calls that return the content never exceeds N.
C33_ContentReturnedAtMostN ==
    \A i \in Ids :
        born[i].security.max_access_count # Null
            => okCount[i] <= born[i].security.max_access_count

\* The unseal attempts with a wrong password made on entry i since the last
\* call that returned its content: those of the calls that have ended and
\* those of the calls on their wrong-password path.
WrongAttemptsEvaluated(i) ==
    streak[i] + Cardinality({p \in Callers : pc[p] = "acc_write_fail" /\ tgt[p] = i})

\* C34: under any interleaving of concurrent access_file calls with wrong
\* passwords on one entry, at most 3 unseal attempts with a wrong password
\* are evaluated against the entry before it is destroyed: no failed
\* attempt is lost from the persisted counter.
C34_AtMostThreeWrongAttempts ==
    \A i \in Ids :
        /\ born[i].security.max_access_count = Null
        /\ okCount[i] = 0
        /\ i \notin destroyed
        => /\ WrongAttemptsEvaluated(i) <= MaxFailedAttempts
           /\ IsJson(files[i]) =>
                 streak[i] <= IF files[i].failed_password_attempts = Null THEN 0
                              ELSE files[i].failed_password_attempts

\* ------------------------------------------------ claims on the exports
\* C35: export_file and export_portable_file never export an entry whose
\* policy constraints are violated at the time of the call (expired, access
\* count exhausted or dead-man triggered): the record or the envelope of
\* such an entry is not written to an export path.
C35_NoExportOfViolatingEntry ==
    [][\A p \in Callers, i \in AllIds, export_path \in Paths :
          /\ \/ ExportFile(p, i, export_path)
             \/ \E password \in Passwords : ExportPortable(p, i, password, export_path)
          /\ IsJson(files[i])
          /\ ~CheckSecurityConstraints(files[i], now)
          => disk' = disk]_vars

\* The export operations.
ExportOps == {"export_file", "export_portable_file"}

\* C36: export_file and export_portable_file are read-only with respect to
\* the store: for every outcome, a wrong password given to
\* export_portable_file included, the persisted records of the entries and
\* the blacklist are unchanged, so that wrong passwords on the export path
\* do not count toward the destruction threshold.
C36_ExportsLeaveTheStoreUnchanged ==
    [][(\E op \in ExportOps : ImportStep(op)) =>
          /\ files' = files
          /\ blacklist' = blacklist
          /\ pc' = pc]_vars

\* export_portable_file was refused for a wrong password, for the second
\* time, on an entry with two failed attempts counted by access_file, and
\* the entry is in place with its two attempts.
C36_Witness ==
    /\ io.op = "export_portable_file"
    /\ io.result = "wrong_password"
    /\ io.n = 0
    /\ IsJson(files["f1"])
    /\ files["f1"].failed_password_attempts = 2
    /\ files["f1"].access_count = 1
    /\ blacklist = {}

\* --------------------------------------------------- claims on the sweep
\* C37: in one sweep iteration of _monitor_files every persisted entry is
\* evaluated: a metadata record that cannot be read or parsed, or a failure
\* while an entry is destroyed, does not stop the iteration from evaluating
\* and destroying the other violating entries.
C37_SweepReachesEveryEntry ==
    [][pc[Sweeper] = "sw_next" /\ pc'[Sweeper] = "sw_sleep" =>
          /\ sweepQ = {}
          /\ \A i \in expAtGlob : files[i] = NoFile /\ i \in destroyed]_vars

\* An iteration has ended that met a file that does not parse and an
\* expired entry, with the blacklist insertion failing: the file is in
\* place and the entry is destroyed.
C37_Witness ==
    /\ pc[Sweeper] = "sw_sleep"
    /\ files["f1"] = Wiped
    /\ "blacklist" \in faults
    /\ expAtGlob = {"n1"}
    /\ "n1" \in destroyed
    /\ files["n1"] = NoFile

\* ------------------------------------- claims on the duplicate search
\* A step of the search thread, and a step of the destroying caller.
SearchStep == dup'.thread # dup.thread \/ dup'.left # dup.left

\* C38: the duplicate search after a destruction erases only files whose
\* parsed content_hash equals that of the destroyed entry, opens no file on
\* a device of type Network or CD-ROM, runs in a thread of its own that the
\* destroying caller does not wait for, and whatever goes wrong in it
\* leaves the primary destruction as it is.
C38_DuplicateSearchIsConfined ==
    /\ [](dup.caller = "erase" => ENABLED DupCallerReturn)
    /\ [](dup.caller = "returned" => dup.result /\ ~dup.metadata)
    /\ [](\A d \in dup.opened : ~(dup.types[d] \in {"Network", "CD-ROM"}))
    /\ [][/\ \A d \in Devices :
               dup'.bar[d] # dup.bar[d] =>
                  /\ dup.bar[d].kind = "object"
                  /\ dup.bar[d].content_hash = dup.content_hash
                  /\ ~(dup.types[d] \in {"Network", "CD-ROM"})
          /\ SearchStep /\ dup.caller # "read" =>
               /\ dup'.caller = dup.caller
               /\ dup'.result = dup.result
               /\ dup'.metadata = dup.metadata]_vars

\* The caller has returned while the search is still in its loop; the
\* search has erased the duplicate on the fixed drive and has passed over
\* the one on the CD-ROM.
C38_Witness ==
    /\ dup.caller = "returned"
    /\ dup.thread = "loop"
    /\ dup.types = [d \in Devices |-> IF d = 1 THEN "Fixed" ELSE "CD-ROM"]
    /\ \A d \in Devices : HashMatches(dup.born[d], dup.content_hash)
    /\ dup.left = {}
    /\ dup.bar[1] = NoBar
    /\ \A d \in Devices \ {1} : dup.bar[d] = dup.born[d]

\* ------------------------------------------- claims on the scan results
\* C40: once stop_scan has returned "stopped" for a running scan, the
\* status of scan_results stays "stopped" and no file is added to the
\* results until a new scan is started.
C40_StoppedStaysStopped ==
    [][scan.status = "stopped" /\ scan'.status # "in_progress" =>
          /\ scan'.status = "stopped"
          /\ scan'.nfiles = scan.nfiles]_vars

\* C39: every scan started by scan_device or scan_removable_devices ends,
\* whether it completes, raises an error or is stopped: its thread ends,
\* and the thread's last act is to clear scan_in_progress (which is set
\* only while a scan thread runs) and to call the callback, if there is
\* one, with scan_results as they are then; while no scan thread runs,
\* get_scan_progress reports "not_running".
C39_EveryScanEnds ==
    /\ \A t \in ScanThreads : (scan.thr[t].pc # "free") ~> (scan.thr[t].pc = "free")
    /\ [](scan.scan_in_progress => Alive # {})
    /\ [][\A t \in ScanThreads :
             scan.thr[t].pc # "free" /\ scan'.thr[t].pc = "free" =>
                /\ ~scan'.scan_in_progress
                /\ scan.thr[t].callback => scan'.delivered = scan'.status]_vars
    /\ [][GetScanProgress(MainCaller) /\ Alive = {} => scan'.reply = "not_running"]_vars

\* A scan with a callback has found its files and ended: the callback has
\* been called with the completed results, no scan thread is left, and
\* get_scan_progress has answered "not_running".
C39_Witness ==
    /\ scan.status = "completed"
    /\ scan.delivered = "completed"
    /\ scan.nfiles = MaxFiles
    /\ Alive = {}
    /\ ~scan.scan_in_progress
    /\ scan.reply = "not_running"

====
